---- MODULE Spec2Model ----
(***************************************************************************)
(* State-machine model of the JSR Hydra trading orchestrator               *)
(* (backend/app/engine/engine.py): engine lifecycle, the main loop with    *)
(* its per-symbol candle-change detection, the per-binding order pipeline  *)
(* (SL/TP enforcement, risk gate, order submission, trade recording) and   *)
(* the closure reconciliation pass; and of StrategyD.generate_signal        *)
(* (backend/app/strategies/strategy_d.py).                                 *)
(*                                                                         *)
(* Spec is the engine as a whole.  EnforceSpec, StrategyDSpec,             *)
(* ReconcileSpec, StopSpec, SnapshotSpec, ReportSpec and DetectionSpec each*)
(* apply one piece of it to inputs drawn from a wider set than a run of    *)
(* the whole engine supplies.  InsightsSpec and AnalysisSpec are the       *)
(* insight store and the rate limit of LLMBrain (brain/llm_brain.py),      *)
(* SettingsSpec the trading-symbol routes (api/routes_settings.py).        *)
(*                                                                         *)
(* Prices and ATR values are integers.  The ATR multipliers of             *)
(* SYMBOL_CONFIGS (1.5, 2.0, 2.5) are kept as twice their value and the    *)
(* ATR inputs are even, so that entry +/- atr * mult is exact.             *)
(***************************************************************************)
EXTENDS Integers, Sequences, FiniteSets, TLC

\* Python's None for an optional number (stop_loss, take_profit, atr, cursor).
None == -1000

\* ------------------------------------------------------------------ bounds
\* Candle timestamps the data feed can return are 1..MaxTime.
MaxTime == 2
\* Tickets the broker hands out over a run are 1..MaxTickets.
MaxTickets == 1
\* Tickets tracked when a reconciliation pass is studied on its own are
\* among 1..MaxTracked.
MaxTracked == 3

\* --------------------------------------------------------- configuration
\* self._symbols after symbol resolution: the broker offers these two.
Symbols == <<"EURUSD", "XAUUSD">>

\* Strategy variants _register_strategies binds to every symbol.  The four
\* variants A..D are registered alike (same timeframe, same pipeline); two of
\* them per symbol are kept.
StrategyCodes == <<"A", "D">>

\* Strategy keys f"{symbol}_{code}" as pairs.
AllKeys == {<<Symbols[i], StrategyCodes[j]>> : i \in 1..Len(Symbols), j \in 1..Len(StrategyCodes)}

\* config['timeframe'] of a binding: every registered variant uses M15.
Timeframe(key) == "M15"

\* strategy_timeframes of a symbol: the timeframes of its bindings.
StrategyTimeframes(keys) == {Timeframe(k) : k \in keys}

\* Twice SYMBOL_CONFIGS[symbol]["sl_atr_mult"].
SlAtrMult2(symbol) == IF symbol = "XAUUSD" THEN 4 ELSE 3

\* Twice SYMBOL_CONFIGS[symbol]["tp_atr_mult"].
TpAtrMult2(symbol) == IF symbol = "XAUUSD" THEN 5 ELSE 4

\* ----------------------------------------------------------------- inputs
\* indicator_values["atr"]: None when the H1 fetch fails or is too short.
AtrValues == {None, 0, 2}

\* Signals a strategy's run_cycle can return.
Signals == [direction : {"BUY", "SELL"}, entry_price : {4},
            stop_loss : {None, 0, 3}, take_profit : {None, 0, 9}]

\* What get_candles(symbol, tf, 200) can do: raise, or return a series of
\* len rows whose last index is latest (None for an empty series).
CandleFeeds == {[kind |-> "raise", len |-> 0, latest |-> None],
                [kind |-> "ok", len |-> 0, latest |-> None]}
               \cup [kind : {"ok"}, len : {1, 2}, latest : 1..MaxTime]

VARIABLES
    pc,                 \* position of the engine task
    is_running,         \* self._is_running
    strategies,         \* keys of self._strategies
    active,             \* keys whose strategy.is_active is true
    last_candle_time,   \* self._last_candle_time, None for a missing key
    open_trades,        \* keys of self._open_trades (tickets)
    broker_positions,   \* tickets open at the broker
    next_ticket,        \* next ticket the broker hands out
    sym_idx,            \* index of the symbol being processed
    strat_idx,          \* index of the binding being processed
    indicator_atr,      \* indicator_values["atr"] of the current symbol
    prev_time,          \* prev_time of the last detection
    candles_tf,         \* candles_tf of the last detection
    new_candle_for_tf,  \* new_candle_for_tf of the current symbol
    last,               \* what the pipeline did for the last binding
    rec,                \* what the last reconciliation pass did
    stop_requested,     \* stop() was called since the loop last tested the flag
    start_error,        \* the step of start() that raised ("none": none did)
    market,             \* what the market-hours gate of the cycle found
    signal,             \* the signal under enforcement (unit specifications)
    enforced,           \* status, sl_price and tp_price the enforcement left
    window,             \* the candle window StrategyD.generate_signal is given
    d_signal,           \* what StrategyD.generate_signal returned for it
    shutdown,           \* what the stop() call under study did
    account,            \* what get_balance / get_equity do for the snapshot
    account_summary,    \* the account_summary of the cycle summary
    position_data,      \* the history data of a closed position (None: no data)
    close_report,       \* the trade result handed to the brain for it
    insights_history,   \* LLMBrain._insights_history (insights by number)
    insights_stored,    \* how many _store_insight calls there have been
    insights_result,    \* the last get_insights call and what it returned
    clock,              \* time.time()
    last_analysis_time, \* LLMBrain._last_analysis_time
    llm_calls,          \* the times analyze_market called the LLM, in order
    analysis,           \* per task, what its last analyze_market call did
    redis_symbols,      \* the value under jsr:settings:trading_symbols
    settings_response,  \* the last settings request and its response
    supported_symbols,  \* SUPPORTED_SYMBOLS as the settings routes import it
    eval_count          \* per candle timestamp, evaluations of the binding

vars == <<pc, is_running, strategies, active, last_candle_time, open_trades,
          broker_positions, next_ticket, sym_idx, strat_idx, indicator_atr, prev_time,
          candles_tf, new_candle_for_tf, last, rec, stop_requested,
          start_error, market,
          signal, enforced, window, d_signal, shutdown,
          account, account_summary, position_data, close_report,
          insights_history, insights_stored, insights_result, clock,
          last_analysis_time, llm_calls, analysis, redis_symbols,
          settings_response, supported_symbols, eval_count>>

\* The variables only the unit specifications write; the engine's actions
\* leave them alone.
insightVars == <<insights_history, insights_stored, insights_result>>
analysisVars == <<clock, last_analysis_time, llm_calls, analysis>>
settingsVars == <<redis_symbols, settings_response, supported_symbols>>
serviceVars == <<insightVars, analysisVars, settingsVars, eval_count>>
unitVars == <<signal, enforced, window, d_signal, shutdown,
              account, account_summary, position_data, close_report,
              serviceVars>>

Tickets == 1..MaxTickets
CandleKeys == {<<Symbols[i], tf>> : i \in 1..Len(Symbols), tf \in {"M15"}}

\* ------------------------------------------------- candle-change detection
\* `not candles_tf.empty and len(candles_tf) >= 2`
HasEnoughCandles(feed) == feed.len >= 2

\* A detection that also takes an equal timestamp for a new candle.
IsNewCandleMut(prev, latest) == prev = None \/ latest >= prev

\* The new-candle decision: no prior cursor, or a strictly later timestamp.
IsNewCandle(prev, latest) == prev = None \/ latest > prev

\* The cursor stored after a detection on a series that is long enough.
StoredCursor(prev, latest) == latest

\* A fetch handler that reports a new candle when the fetch raised.
OnFetchErrorMut(prev) == [new |-> TRUE, cursor |-> prev]

\* The `except Exception` of the per-timeframe fetch: the flag is set to
\* False and nothing else is touched.
OnFetchError(prev) == [new |-> FALSE, cursor |-> prev]

\* One detection for a (symbol, timeframe): the flag and the cursor it leaves.
DetectNewCandle(prev, feed) ==
    IF feed.kind = "raise"
      THEN OnFetchError(prev)
      ELSE IF HasEnoughCandles(feed)
             THEN [new |-> IsNewCandle(prev, feed.latest),
                   cursor |-> StoredCursor(prev, feed.latest)]
             ELSE [new |-> FALSE, cursor |-> prev]

\* new_candle_for_tf.get(tf, False)
NewCandleFlag(flags, tf) == IF tf \in DOMAIN flags THEN flags[tf] ELSE FALSE

\* A gate that lets a binding wait only when its timeframe has no flag.
WaitsForCandleMut(flags, tf) == tf \notin DOMAIN flags

\* `if not new_candle_for_tf.get(tf, False)`: the binding waits.
WaitsForCandle(flags, tf) == ~NewCandleFlag(flags, tf)

\* ------------------------------------------------------ SL/TP enforcement
\* `sl_price is None or sl_price <= 0`
MissingStop(p) == p = None \/ p <= 0

\* A fallback that takes any ATR value that is not None.
AtrUsableMut(a) == a # None

\* `fallback_atr and fallback_atr > 0`
AtrUsable(a) == a # None /\ a > 0

\* A derivation that puts the stop-loss on the take-profit side.
DeriveSLMut(direction, entry, a, symbol) ==
    IF direction = "BUY" THEN entry + (a * SlAtrMult2(symbol)) \div 2
                         ELSE entry - (a * SlAtrMult2(symbol)) \div 2

\* `sl_price = entry_price -/+ (fallback_atr * sym_cfg["sl_atr_mult"])`
DeriveSL(direction, entry, a, symbol) ==
    IF direction = "BUY" THEN entry - (a * SlAtrMult2(symbol)) \div 2
                         ELSE entry + (a * SlAtrMult2(symbol)) \div 2

\* `tp_price = entry_price +/- (fallback_atr * sym_cfg["tp_atr_mult"])`
DeriveTP(direction, entry, a, symbol) ==
    IF direction = "BUY" THEN entry + (a * TpAtrMult2(symbol)) \div 2
                         ELSE entry - (a * TpAtrMult2(symbol)) \div 2

\* A final validation that lets a price of exactly 0 through.
InvalidStopsMut(sl, tp) == sl < 0 \/ tp < 0

\* Final validation: `if sl_price <= 0 or tp_price <= 0`
InvalidStops(sl, tp) == sl <= 0 \/ tp <= 0

ValidateStops(sl, tp) ==
    [status |-> IF InvalidStops(sl, tp) THEN "invalid_sl_tp" ELSE "signal",
     sl |-> sl, tp |-> tp]

\* The enforcement block: the status it records and the prices it leaves.
EnforceSLTP(sig, a, symbol) ==
    IF MissingStop(sig.stop_loss) \/ MissingStop(sig.take_profit)
      THEN IF AtrUsable(a)
             THEN ValidateStops(
                    IF MissingStop(sig.stop_loss)
                      THEN DeriveSL(sig.direction, sig.entry_price, a, symbol)
                      ELSE sig.stop_loss,
                    IF MissingStop(sig.take_profit)
                      THEN DeriveTP(sig.direction, sig.entry_price, a, symbol)
                      ELSE sig.take_profit)
             ELSE [status |-> "skipped_no_sl_tp",
                   sl |-> sig.stop_loss, tp |-> sig.take_profit]
      ELSE ValidateStops(sig.stop_loss, sig.take_profit)

\* ------------------------------------------------- collaborator behaviour
DefaultSignal == [direction |-> "BUY", entry_price |-> 4,
                  stop_loss |-> None, take_profit |-> None]

\* What the collaborators do while one binding is processed:
\*   run    strategy.run_cycle: raises, returns None or returns sig
\*   risk   pre_trade_check: raises, approves or rejects
\*   order  open_position: raises, returns None or a result with a ticket
\*   publish_ok      the TRADE_REJECTED / TRADE_OPENED publish returns
\*   brain_ok        get_brain().process_trade_result returns
\*   db_ok           the trade-recording block commits
\*   err_publish_ok  the STRATEGY_ERROR publish returns
AllOutcomes == [run : {"raise", "none", "signal"}, sig : Signals,
                risk : {"raise", "approved", "rejected"},
                order : {"raise", "null", "ok"},
                publish_ok : BOOLEAN, brain_ok : BOOLEAN, db_ok : BOOLEAN,
                err_publish_ok : BOOLEAN]

\* A choice that no step of the path reads is fixed to its default.
Canonical(o) ==
    LET dSig == o.sig = DefaultSignal
        dRisk == o.risk = "approved"
        dOrder == o.order = "null"
        dPub == o.publish_ok
        dBrain == o.brain_ok
        dDb == o.db_ok
        dErr == o.err_publish_ok
    IN CASE o.run = "raise" -> dSig /\ dRisk /\ dOrder /\ dPub /\ dBrain /\ dDb
         [] o.run = "none" -> dSig /\ dRisk /\ dOrder /\ dPub /\ dBrain /\ dDb /\ dErr
         [] OTHER ->
            CASE o.risk = "raise" -> dOrder /\ dPub /\ dBrain /\ dDb
              [] o.risk = "rejected" ->
                    dOrder /\ dBrain /\ dDb /\ (o.publish_ok => dErr)
              [] OTHER ->
                 CASE o.order = "raise" -> dPub /\ dBrain /\ dDb
                   [] o.order = "null" -> dPub /\ dBrain /\ dDb /\ dErr
                   [] OTHER -> IF o.publish_ok THEN dErr ELSE dBrain /\ dDb

Outcomes == {o \in AllOutcomes : Canonical(o)}

DefaultOutcome ==
    [run |-> "none", sig |-> DefaultSignal, risk |-> "approved", order |-> "null",
     publish_ok |-> TRUE, brain_ok |-> TRUE, db_ok |-> TRUE, err_publish_ok |-> TRUE]

\* The collaborator behaviours a binding can meet: none is called while the
\* binding waits for a candle or is inactive, and the risk manager, the
\* order manager, the bus, the brain and the database are reached only by a
\* signal that passes the SL/TP enforcement.
OutcomesFor(waits, isActive, a, symbol) ==
    IF waits \/ ~isActive
      THEN {DefaultOutcome}
      ELSE {o \in Outcomes :
              o.run = "signal" /\ EnforceSLTP(o.sig, a, symbol).status # "signal"
                => o = [DefaultOutcome EXCEPT !.run = "signal", !.sig = o.sig]}

\* ------------------------------------------------ per-binding pipeline
NoKey == <<"", "">>

\* What the pipeline did for one binding:
\*   new_flag   new_candle_for_tf.get(tf, False) as the binding read it
\*   status     the binding's entry in all_signals_summary
\*   evaluated  strategy.run_cycle was called
\*   risk       pre_trade_check: not called, raised, approved or rejected
\*   order      open_position: not called, raised, returned None or a result
\*   sl_distance  the sl_distance passed to pre_trade_check
\*   order_sl, order_tp   the sl and tp passed to open_position
\*   ticket     the ticket open_position returned (0: none)
\*   publish    the TRADE_REJECTED / TRADE_OPENED publish: none, ok, raise
\*   brain      process_trade_result for the opened trade: none, ok, raise
\*   db         the trade-recording block: none, ok, raise
\*   tracked    the ticket was entered into _open_trades
\*   persisted  the trade row was committed
\*   raised     the binding's except handler ran
\*   escaped    the handler's STRATEGY_ERROR publish raised in turn
NoTrace ==
    [key |-> NoKey, new_flag |-> FALSE, status |-> "none",
     evaluated |-> FALSE, risk |-> "none", sl_distance |-> None,
     order |-> "none",
     order_sl |-> None, order_tp |-> None, ticket |-> 0,
     publish |-> "none", brain |-> "none", db |-> "none",
     tracked |-> FALSE, persisted |-> FALSE,
     raised |-> FALSE, escaped |-> FALSE]

\* The binding's `except Exception` handler: status "error: ...", then the
\* STRATEGY_ERROR publish, which is not guarded itself.
OnBindingError(t, o) ==
    [t EXCEPT !.status = "error", !.raised = TRUE,
              !.escaped = ~o.err_publish_ok]

\* A risk gate whose verdict is not looked at.
RiskRejectedMut(risk) == FALSE

\* `if not risk_check.approved`
RiskRejected(risk) == risk # "approved"

\* The trade-recording try block: create_trade, ticket/status update and
\* commit, then `self._open_trades[ticket] = ...` as its last statements.
RecordToDb(t, o) ==
    IF o.db_ok
      THEN [t EXCEPT !.db = "ok", !.persisted = TRUE, !.tracked = TRUE]
      ELSE [t EXCEPT !.db = "raise"]

\* The brain notification in its own try/except.
NotifyBrain(t, o) == [t EXCEPT !.brain = IF o.brain_ok THEN "ok" ELSE "raise"]

\* After open_position returned a result: the TRADE_OPENED publish (inside
\* the binding's try only), the brain notification, the trade recording.
AfterOrder(t, o, tk) ==
    LET issued == [t EXCEPT !.order = "ok", !.ticket = tk] IN
    IF ~o.publish_ok
      THEN OnBindingError([issued EXCEPT !.publish = "raise"], o)
      ELSE RecordToDb(NotifyBrain([issued EXCEPT !.publish = "ok"], o), o)

\* A risk check that is given the signed distance.
SlDistanceMut(entry, sl) == entry - sl

\* `sl_distance=abs(entry_price - sl_price)`
SlDistance(entry, sl) == IF entry < sl THEN sl - entry ELSE entry - sl

\* An order path that announces a trade although no order came back.
OnNullOrderMut(t) == [t EXCEPT !.order = "null", !.publish = "ok"]

\* `if order_result is None`: a warning is logged and the loop continues
\* with the next binding.
OnNullOrder(t) == [t EXCEPT !.order = "null"]

\* Risk gate and order submission for a signal with enforced stops.
SubmitSignal(t, o, sl, tp, tk) ==
    LET asked == [t EXCEPT !.sl_distance = SlDistance(o.sig.entry_price, sl)] IN
    IF o.risk = "raise"
      THEN OnBindingError([asked EXCEPT !.risk = "raise"], o)
      ELSE LET checked == [asked EXCEPT !.risk = o.risk] IN
           IF RiskRejected(o.risk)
             THEN IF o.publish_ok
                    THEN [checked EXCEPT !.publish = "ok"]
                    ELSE OnBindingError([checked EXCEPT !.publish = "raise"], o)
             ELSE LET sent == [checked EXCEPT !.order_sl = sl, !.order_tp = tp]
                  IN CASE o.order = "raise" ->
                            OnBindingError([sent EXCEPT !.order = "raise"], o)
                       [] o.order = "null" -> OnNullOrder(sent)
                       [] OTHER -> AfterOrder(sent, o, tk)

\* The body of `for strat_key, strategy in symbol_strategies.items()`.
ProcessBinding(key, flags, isActive, a, o, tk) ==
    LET t0 == [NoTrace EXCEPT !.key = key,
                              !.new_flag = NewCandleFlag(flags, Timeframe(key))]
    IN IF WaitsForCandle(flags, Timeframe(key))
         THEN [t0 EXCEPT !.status = "waiting_for_candle"]
         ELSE IF ~isActive
                THEN [t0 EXCEPT !.status = "inactive"]
                ELSE LET ran == [t0 EXCEPT !.evaluated = TRUE] IN
                     CASE o.run = "raise" -> OnBindingError(ran, o)
                       [] o.run = "none" -> [ran EXCEPT !.status = "no_signal"]
                       [] OTHER ->
                          LET enf == EnforceSLTP(o.sig, a, key[1]) IN
                          IF enf.status # "signal"
                            THEN [ran EXCEPT !.status = enf.status]
                            ELSE SubmitSignal([ran EXCEPT !.status = "signal"],
                                              o, enf.sl, enf.tp, tk)

\* --------------------------------------------------------- reconciliation
\* `closed_tickets = [t for t in self._open_trades if t not in open_tickets]`
ClosedTickets(tracked, open_tickets) == tracked \ open_tickets

\* A pass that goes on whatever the record holds.
RecordEmptyMut(tracked) == FALSE

\* `if not self._open_trades: return`
RecordEmpty(tracked) == tracked = {}

\* A handler that forgets the tracked trades when the broker cannot be
\* asked.
OnPositionsErrorMut(tracked) == {}

\* The outer `except Exception` of the pass, reached when
\* get_open_positions raises: a warning is logged, _open_trades is as it was.
OnPositionsError(tracked) == tracked

\* A pass that reads the closed tickets' entries without removing them.
PopClosedMut(tracked, closed) == tracked

\* `self._open_trades.pop(ticket)` for every closed ticket.
PopClosed(tracked, closed) == tracked \ closed

\* What happens while one closed ticket is processed: everything works,
\* the trade row is missing, the session / close_trade raises, the
\* performance update raises, or the brain notification raises.
CloseOutcomes == {"ok", "no_row", "db_raise", "perf_raise", "brain_raise"}

\* TradeService.close_trade returned for this ticket.
ClosePersisted(oc) == oc \in {"ok", "perf_raise", "brain_raise"}

\* brain.process_trade_result returned for this ticket.
CloseNotified(oc) == oc \in {"ok", "perf_raise"}

\* A per-ticket handler that lets a storage failure through.
CloseEscapesMut(oc) == oc = "db_raise"

\* Whether what happens while a ticket is processed leaves the per-ticket
\* `try ... except Exception as close_err`: that handler catches everything.
CloseEscapes(oc) == FALSE

\* The closed tickets the `for ticket in closed_tickets` loop gets to, in
\* the order of the dict (tickets are entered in increasing order): the
\* loop ends at the first ticket whose processing leaves its try block.
ReachedTickets(closed, f) ==
    {t \in closed : \A u \in closed : u < t => ~CloseEscapes(f[u])}

\* What a pass did: whether it went past the empty-map return, whether
\* get_open_positions returned, the tickets it reported, the tickets popped,
\* what happened while each was processed, and those among them whose
\* closure was persisted / notified to the brain.
NoRec == [ran |-> FALSE, fetched |-> FALSE, open_tickets |-> {}, closed |-> {},
          outcome |-> << >>, persisted |-> {}, notified |-> {}]

\* ------------------------------------------- StrategyD.generate_signal
\* Prices, band values, ATR and body sizes are integers and the ATR inputs
\* are even, so that close +/- 1.5 * atr is exact.  RSI is a whole number
\* and the confidence is kept in hundredths (0.1 is 10).

\* abs(), min() and max() of Python.
Abs(x) == IF x < 0 THEN -x ELSE x
Min(a, b) == IF a <= b THEN a ELSE b
Max(a, b) == IF a >= b THEN a ELSE b

\* The configurations generate_signal runs under: the constructor's
\* defaults and the one _register_strategies passes.
DConfigs == {[bb_period |-> 20, rsi_period |-> 14,
              rsi_oversold |-> 30, rsi_overbought |-> 70],
             [bb_period |-> 14, rsi_period |-> 14,
              rsi_oversold |-> 38, rsi_overbought |-> 62]}

\* Candle windows with their latest values: len(candles_df), whether one of
\* the latest indicator values is NaN, the latest open/high/low/close, the
\* latest band values, RSI and ATR, and the mean body of the five candles
\* before the current one.
DWindows ==
    {[config |-> c, len |-> shape[1], nan |-> shape[2],
      open |-> o, close |-> cl,
      high |-> Max(o, cl) + wick, low |-> Min(o, cl) - wick,
      lower_band |-> band[1], upper_band |-> band[2],
      rsi |-> r, atr |-> a, avg_body |-> avg] :
       c \in DConfigs,
       shape \in {<<18, FALSE>>, <<19, FALSE>>, <<24, FALSE>>, <<25, FALSE>>,
                  <<25, TRUE>>},
       o \in {2, 9, 16}, cl \in {8, 10}, wick \in {0, 8},
       band \in {<<1, 20>>, <<12, 20>>, <<1, 7>>},
       r \in {20, 35, 45, 50, 80, 120}, a \in {0, 2, 8}, avg \in {1, 10}}

\* `min_data = max(self._bb_period, self._rsi_period) + 5`
MinData(config) == Max(config.bb_period, config.rsi_period) + 5

\* `bb_buy = latest_close < latest_lower_band` and its counterpart.
BbBuy(w) == w.close < w.lower_band
BbSell(w) == w.close > w.upper_band

\* `rsi_buy = latest_rsi < self._rsi_oversold` and its counterpart.
RsiBuy(w) == w.rsi < w.config.rsi_oversold
RsiSell(w) == w.rsi > w.config.rsi_overbought

\* `current_body = abs(latest_close - latest_open)`
CurrentBody(w) == Abs(w.close - w.open)

\* `current_body > 1.5 * avg_body and body_ratio > 0.6`, where body_ratio
\* is current_body / candle_range for a positive range and 0 otherwise.
MomentumBurst(w) ==
    /\ w.len >= 6
    /\ 2 * CurrentBody(w) > 3 * w.avg_body
    /\ w.high - w.low > 0
    /\ 5 * CurrentBody(w) > 3 * (w.high - w.low)

MomentumBuy(w) == MomentumBurst(w) /\ w.close > w.open
MomentumSell(w) == MomentumBurst(w) /\ ~(w.close > w.open)

\* buy_signals / sell_signals: the triggers that fired.
BuySignals(w) ==
    {x \in {"bb", "rsi", "momentum"} :
       \/ x = "bb" /\ BbBuy(w)
       \/ x = "rsi" /\ RsiBuy(w)
       \/ x = "momentum" /\ MomentumBuy(w)}

SellSignals(w) ==
    {x \in {"bb", "rsi", "momentum"} :
       \/ x = "bb" /\ BbSell(w)
       \/ x = "rsi" /\ RsiSell(w)
       \/ x = "momentum" /\ MomentumSell(w)}

\* A direction choice that lets BUY win a conflict.
SignalDirectionMut(buys, sells) ==
    IF buys # {} THEN "BUY" ELSE IF sells # {} THEN "SELL" ELSE "NONE"

\* `if buy_signals and not sell_signals ... elif sell_signals and not
\* buy_signals ... else: return None`
SignalDirection(buys, sells) ==
    IF buys # {} /\ sells = {} THEN "BUY"
    ELSE IF sells # {} /\ buys = {} THEN "SELL"
    ELSE "NONE"

\* A stop-loss put on the take-profit side of the close.
SlPriceMut(direction, w) ==
    IF direction = "BUY" THEN w.close + w.atr ELSE w.close - w.atr

\* `sl_price = latest_close -/+ latest_atr * 1.0`
SlPrice(direction, w) ==
    IF direction = "BUY" THEN w.close - w.atr ELSE w.close + w.atr

\* `tp_price = latest_close +/- latest_atr * 1.5`
TpPrice(direction, w) ==
    IF direction = "BUY" THEN w.close + (3 * w.atr) \div 2
                         ELSE w.close - (3 * w.atr) \div 2

\* A confidence without the cap at 1.0.
ConfidenceMut(r) == (Abs(r - 50) * 100) \div 50

\* `confidence = min(abs(latest_rsi - 50.0) / 50.0, 1.0)`, in hundredths.
Confidence(r) == Min((Abs(r - 50) * 100) \div 50, 100)

\* generate_signal returned None.
NoDSignal == [kind |-> "none", direction |-> "NONE", confidence |-> 0,
              sl_price |-> None, tp_price |-> None, reasons |-> {}]

\* generate_signal has not been called.
PendingDSignal == [NoDSignal EXCEPT !.kind = "pending"]

\* A length test that also turns away a window of exactly min_data candles.
TooShortMut(w) == w.len <= MinData(w.config)

\* `if len(candles_df) < min_data`
TooShort(w) == w.len < MinData(w.config)

\* generate_signal(candles_df)
GenerateSignal(w) ==
    IF TooShort(w) THEN NoDSignal
    ELSE IF w.nan THEN NoDSignal
    ELSE LET buys == BuySignals(w)
             sells == SellSignals(w)
             direction == SignalDirection(buys, sells)
             sl == SlPrice(direction, w)
             tp == TpPrice(direction, w)
         IN IF direction = "NONE" THEN NoDSignal
            ELSE IF sl <= 0 \/ tp <= 0 THEN NoDSignal
            ELSE [kind |-> "signal", direction |-> direction,
                  confidence |-> Confidence(w.rsi),
                  sl_price |-> sl, tp_price |-> tp,
                  reasons |-> IF direction = "BUY" THEN buys ELSE sells]

\* No window: the engine's own specifications give generate_signal none.
NoWindow == [config |-> CHOOSE c \in DConfigs : c.bb_period = 14,
             len |-> 0, nan |-> FALSE, open |-> 0, close |-> 0, high |-> 0,
             low |-> 0, lower_band |-> 0, upper_band |-> 0, rsi |-> 0, atr |-> 0,
             avg_body |-> 0]

\* ------------------------------------------------------- account snapshot
\* Balance and equity are whole currency units; the drawdown is kept in
\* hundredths of a percent, the precision round(drawdown, 2) leaves.

\* What the two account calls do: each returns its figure or raises.
Accounts == [balance_ok : BOOLEAN, equity_ok : BOOLEAN,
             balance : {-5, 0, 3, 32, 10000}, equity : {0, 2, 31, 9500, 10500}]

NoAccount == [balance_ok |-> FALSE, equity_ok |-> FALSE, balance |-> 0,
              equity |-> 0]

\* `account_summary = {"balance": None, "equity": None, "drawdown": None}`
NoSummary == [balance |-> None, equity |-> None, drawdown |-> None]

\* round(n / d, 0) for d > 0 as Python rounds: to the nearest integer, a
\* tie to the even one.
RoundHalfEven(n, d) ==
    LET q == n \div d
        r == n - q * d
    IN IF 2 * r < d THEN q
       ELSE IF 2 * r > d THEN q + 1
       ELSE IF q % 2 = 0 THEN q ELSE q + 1

\* A drawdown computed with the two figures the wrong way round.
DrawdownMut(balance, equity) ==
    IF balance > 0 THEN RoundHalfEven((equity - balance) * 10000, balance) ELSE 0

\* `round(((balance - equity) / balance * 100.0) if balance > 0 else 0.0, 2)`
\* in hundredths of a percent.
Drawdown(balance, equity) ==
    IF balance > 0 THEN RoundHalfEven((balance - equity) * 10000, balance) ELSE 0

\* The account block of a cycle: the default summary stays when either
\* call raises.
AccountSummary(acc) ==
    IF acc.balance_ok /\ acc.equity_ok
      THEN [balance |-> acc.balance, equity |-> acc.equity,
            drawdown |-> Drawdown(acc.balance, acc.equity)]
      ELSE NoSummary

\* ---------------------------------------------------------- closure report
\* Amounts are in cents.  A history record may lack any of its keys (None).
PositionDatas == [available : {TRUE}, profit : {None, -5, 0, 3, 10},
                  commission : {None, 0, 1, 3}, swap : {None, -1, 0, 2}]

\* No history data: the lookup raised, did not answer 200, or was empty.
NoPositionData == [available |-> FALSE, profit |-> None, commission |-> None,
                   swap |-> None]

NoReport == [profit |-> None, won |-> FALSE]

\* `position_data.get(field, 0.0)`, after the defaults set before
\* `if position_data:`.
HistoryValue(d, field) ==
    IF d.available /\ d[field] # None THEN d[field] ELSE 0

\* `net_profit = profit - commission - swap`
NetProfit(profit, commission, swap) == profit - commission - swap

\* A report that counts a break-even trade as won.
WonMut(net) == net >= 0

\* `"won": net_profit > 0`
Won(net) == net > 0

\* The "profit" and "won" fields handed to brain.process_trade_result.
CloseReport(d) ==
    LET net == NetProfit(HistoryValue(d, "profit"), HistoryValue(d, "commission"),
                         HistoryValue(d, "swap"))
    IN [profit |-> net, won |-> Won(net)]

\* --------------------------------------------------------------- LLM brain
\* Insights are told apart by their number: the n-th insight handed to
\* _store_insight is n.

\* `self._max_insights = 50`
MaxInsights == 50

\* How many _store_insight calls a run makes at most.
MaxStored == 52

\* The limits get_insights is called with; 20 is its default.
GetLimits == {0, 1, 20, 50, 60}

\* Python's seq[start:], for a start of either sign.
PySliceFrom(seq, start) ==
    LET n == Len(seq)
        from == IF start < 0 THEN Max(n + start, 0) ELSE Min(start, n)
    IN SubSeq(seq, from + 1, n)

\* list(reversed(seq))
Reversed(seq) == [i \in 1..Len(seq) |-> seq[Len(seq) - i + 1]]

\* A store that trims from the wrong end.
StoreInsightMut(history, insight) ==
    LET all == Append(history, insight)
    IN IF Len(all) > MaxInsights THEN SubSeq(all, 1, MaxInsights) ELSE all

\* _store_insight: append, then keep the last _max_insights entries.
StoreInsight(history, insight) ==
    LET all == Append(history, insight)
    IN IF Len(all) > MaxInsights THEN PySliceFrom(all, -MaxInsights) ELSE all

\* `list(reversed(self._insights_history[-limit:]))`
GetInsights(history, limit) == Reversed(PySliceFrom(history, -limit))

\* No get_insights call yet; otherwise the limit passed, the number of
\* insights stored by then and the list returned.
NoInsightsResult == [limit |-> None, stored |-> 0, items |-> << >>]

InsightsAtRest ==
    /\ insights_history = << >>
    /\ insights_stored = 0
    /\ insights_result = NoInsightsResult

\* `self._analysis_interval = 900`, in seconds like the clock.
AnalysisInterval == 900

\* How far the clock runs past its first reading, and how many tasks call
\* analyze_market.
MaxElapsed == 1800
MaxTasks == 2

AnalysisTasks == 1..MaxTasks

\* The time that passes between two steps of the tasks.
TickSteps == {899, 900}

\* `if now - self._last_analysis_time < self._analysis_interval`
TooSoon(now, previous) == now - previous < AnalysisInterval

\* A limit that is stamped only once the LLM has answered.
StampOnPassMut(now, previous) == previous

\* `self._last_analysis_time = now`, right after the test and before the
\* coroutine's first await.
StampOnPass(now, previous) == now

\* What the last analyze_market call of a task did: where it is (idle, in
\* the LLM call, returned None as too soon, done), the time since the last
\* call that went on to the LLM (since the epoch when there is none),
\* whether it called the LLM and whether it stored an insight.
NoCall == [state |-> "idle", since |-> None, called |-> FALSE, stored |-> FALSE]

\* The brain before any analysis: the clock reads a time of day, which is
\* at least one interval after the epoch.
AnalysisAtRest ==
    /\ clock = AnalysisInterval
    /\ last_analysis_time = 0
    /\ llm_calls = << >>
    /\ analysis = [t \in AnalysisTasks |-> NoCall]

\* --------------------------------------------------------- settings routes
\* Symbols a client can name in a request, and the longest list it sends.
RequestSymbols == {"EURUSD", "XAUUSD", "BTCUSD"}
MaxBody == 2

\* body.active_symbols of a PATCH /settings/trading-symbols request.
Bodies == UNION {[1..n -> RequestSymbols] : n \in 0..MaxBody}

\* The values SUPPORTED_SYMBOLS can have: the routes take it as imported.
SupportedChoices == SUBSET RequestSymbols \ {{}}

\* r.get(TRADING_SYMBOLS_REDIS_KEY) when the key was never set.
NoOverride == [set |-> FALSE, active_symbols |-> << >>]

\* json.dumps({"active_symbols": ..., "updated_at": ...}) as r.set stores it
\* and json.loads reads it back; updated_at is never read.
Payload(symbols) == [set |-> TRUE, active_symbols |-> symbols]

\* A validation that looks at the first symbol only.
InvalidSymbolsMut(body, supported) ==
    IF body = << >> THEN << >>
    ELSE SelectSeq(<<body[1]>>, LAMBDA x : x \notin supported)

\* `invalid = [s for s in body.active_symbols if s not in SUPPORTED_SYMBOLS]`
InvalidSymbols(body, supported) == SelectSeq(body, LAMBDA x : x \notin supported)

\* A request and its response: the route, the submitted list, the HTTP
\* status, the active_symbols of the response body and the stored value
\* the request found.
NoSettingsResponse ==
    [op |-> "none", body |-> << >>, status |-> None, active_symbols |-> << >>,
     before |-> NoOverride]

\* update_trading_symbols for one request; redis_ok: the Redis calls work.
UpdateResponse(body, supported, stored, redis_ok) ==
    LET r == [NoSettingsResponse EXCEPT !.op = "update", !.body = body,
                                        !.before = stored]
    IN IF body = << >> \/ InvalidSymbols(body, supported) # << >>
         THEN [stored |-> stored, response |-> [r EXCEPT !.status = 400]]
         ELSE IF redis_ok
                THEN [stored |-> Payload(body),
                      response |-> [r EXCEPT !.status = 200,
                                             !.active_symbols = body]]
                ELSE [stored |-> stored, response |-> [r EXCEPT !.status = 500]]

\* get_trading_symbols for one request.
GetResponse(stored, redis_ok) ==
    LET r == [NoSettingsResponse EXCEPT !.op = "get", !.before = stored]
    IN IF ~redis_ok
         THEN [r EXCEPT !.status = 500]
         ELSE [r EXCEPT !.status = 200,
                        !.active_symbols = IF stored.set THEN stored.active_symbols
                                                         ELSE Symbols]

SettingsAtRest ==
    /\ redis_symbols = NoOverride
    /\ settings_response = NoSettingsResponse
    /\ supported_symbols = RequestSymbols

\* ------------------------------------------------------ evaluation counts
\* How often one binding is evaluated for one candle timestamp at most.
MaxEvals == 2

EvalsAtRest == eval_count = [k \in AllKeys |-> [T \in 1..MaxTime |-> 0]]

\* -------------------------------------------------------------- lifecycle
\* The steps of start() that can raise before the main loop runs.
StartFailures == {"bridge", "event_bus", "handlers", "risk", "register",
                  "publish_started"}

\* The position of a binding in self._strategies: _register_strategies
\* enters the bindings symbol by symbol, and stop() walks the dict in
\* that order.
KeyIndex(k) ==
    CHOOSE n \in 1..(Len(Symbols) * Len(StrategyCodes)) :
      \E i \in 1..Len(Symbols), j \in 1..Len(StrategyCodes) :
        k = <<Symbols[i], StrategyCodes[j]>> /\ n = (i - 1) * Len(StrategyCodes) + j

\* A start() that has every binding registered whatever step raised.
RegisteredAfterMut(f) == {AllKeys}

\* The contents self._strategies can have when step f of start() raises:
\* nothing before _register_strategies, the bindings entered so far when
\* the registration itself raises, all of them afterwards.
RegisteredAfter(f) ==
    CASE f = "publish_started" -> {AllKeys}
      [] f = "register" ->
           {{k \in AllKeys : KeyIndex(k) <= n} :
              n \in 0..(Len(Symbols) * Len(StrategyCodes) - 1)}
      [] OTHER -> {{}}

\* What the market-hours gate of a cycle can find: is_market_open() false,
\* is_weekend() true, or neither.
MarketStates == {"closed", "weekend", "open"}

\* A gate that lets a closed market through to the symbols.
GateTargetMut(m) == IF m = "weekend" THEN "sleep" ELSE "fetch"

\* Where the gate sends the cycle: to `await asyncio.sleep(...); continue`
\* on a closed market or a weekend, to the symbol loop otherwise.
GateTarget(m) == IF m \in {"closed", "weekend"} THEN "sleep" ELSE "fetch"

\* An empty dict.
NoFlags == [tf \in {} |-> FALSE]

\* What the collaborators do during one stop() call: strategy.stop() of each
\* binding, the ENGINE_STOPPED publish, connector.disconnect() and
\* event_bus.disconnect() each return or raise.
StopOutcomes(strats) ==
    [strategy_stop : [strats -> {"ok", "raise"}], publish_ok : BOOLEAN,
     disconnect_ok : BOOLEAN, bus_ok : BOOLEAN]

\* What a stop() call did:
\*   connector    self._connector was set when it was called
\*   stopped      the bindings whose stop() was invoked
\*   stop_errors  those among them whose stop() raised
\*   published    the ENGINE_STOPPED publish returned
\*   disconnect   connector.disconnect(): not called, returned or raised
\*   bus          event_bus.disconnect(): not called, returned or raised
\*   propagated   an exception left stop()
NoShutdown == [connector |-> FALSE, stopped |-> {}, stop_errors |-> {},
               published |-> FALSE, disconnect |-> "none", bus |-> "none",
               propagated |-> FALSE]

\* A strategy loop whose per-binding handler lets a failure through.
StrategyStopEscapesMut(r) == r = "raise"

\* Whether what strategy.stop() does leaves the per-binding
\* `try ... except Exception` of stop(): that handler catches and logs.
StrategyStopEscapes(r) == FALSE

\* The bindings `for strategy_code, strategy in self._strategies.items()`
\* gets to: the loop ends at the first binding whose stop() leaves its try.
StoppedBindings(strats, o) ==
    {k \in strats : \A u \in strats :
        KeyIndex(u) < KeyIndex(k) => ~StrategyStopEscapes(o.strategy_stop[u])}

\* Whether a failure of a shutdown step leaves stop(): the whole body is
\* under `try ... except Exception`, and the handler only logs.
StopPropagates(o) == FALSE

\* The body of stop() after the flag is cleared: every strategy.stop() in
\* its own try; the publish, the two disconnects in sequence under the
\* outer try, whose handler only logs.
StopTrace(strats, connector, o) ==
    LET invoked == StoppedBindings(strats, o)
        stopped == [NoShutdown EXCEPT
                      !.connector = connector,
                      !.stopped = invoked,
                      !.stop_errors = {k \in invoked : o.strategy_stop[k] = "raise"},
                      !.propagated = StopPropagates(o)]
    IN IF (\E k \in invoked : StrategyStopEscapes(o.strategy_stop[k]))
          \/ ~o.publish_ok
         THEN stopped
         ELSE LET published == [stopped EXCEPT !.published = TRUE] IN
              IF connector /\ ~o.disconnect_ok
                THEN [published EXCEPT !.disconnect = "raise"]
                ELSE [published EXCEPT
                        !.disconnect = IF connector THEN "ok" ELSE "none",
                        !.bus = IF o.bus_ok THEN "ok" ELSE "raise"]

\* No signal: the engine's own specifications keep none across steps.
NoSignal == [direction |-> "NONE", entry_price |-> None,
             stop_loss |-> None, take_profit |-> None]

NoEnforced == [status |-> "none", sl |-> None, tp |-> None]

\* Signals and ATR values the enforcement is applied to on its own.
EnforceSignals == [direction : {"BUY", "SELL"}, entry_price : {4, 10},
                   stop_loss : {None, -1, 0, 3}, take_profit : {None, 0, 9}]

EnforceAtrValues == {None, -2, 0, 2, 4}

\* The collaborator behaviours met by a binding whose run_cycle returns sig.
EnforceOutcomes(sig) ==
    {[o EXCEPT !.sig = sig] : o \in {x \in Outcomes : x.run = "signal"}}

\* The variables of the engine in a specification that does not run it.
EngineAtRest ==
    /\ is_running = FALSE
    /\ strategies = {}
    /\ active = {}
    /\ last_candle_time = [k \in CandleKeys |-> None]
    /\ open_trades = {}
    /\ broker_positions = {}
    /\ next_ticket = 1
    /\ sym_idx = 1
    /\ strat_idx = 1
    /\ indicator_atr = None
    /\ prev_time = NoFlags
    /\ candles_tf = NoFlags
    /\ new_candle_for_tf = NoFlags
    /\ last = NoTrace
    /\ rec = NoRec
    /\ stop_requested = FALSE
    /\ start_error = "none"
    /\ market = "none"

\* The variables of the pipeline, strategy, shutdown, snapshot and report
\* specifications in a specification that is about none of them.
PiecesAtRest ==
    /\ signal = NoSignal
    /\ enforced = NoEnforced
    /\ window = NoWindow
    /\ d_signal = PendingDSignal
    /\ shutdown = NoShutdown
    /\ account = NoAccount
    /\ account_summary = NoSummary
    /\ position_data = NoPositionData
    /\ close_report = NoReport

\* The brain, the settings route and the evaluation count likewise.
ServicesAtRest ==
    /\ InsightsAtRest
    /\ AnalysisAtRest
    /\ SettingsAtRest
    /\ EvalsAtRest

Init ==
    /\ pc = "init"
    /\ is_running = FALSE
    /\ strategies = {}
    /\ active = {}
    /\ last_candle_time = [k \in CandleKeys |-> None]
    /\ open_trades = {}
    /\ broker_positions = {}
    /\ next_ticket = 1
    /\ sym_idx = 1
    /\ strat_idx = 1
    /\ indicator_atr = None
    /\ prev_time = NoFlags
    /\ candles_tf = NoFlags
    /\ new_candle_for_tf = NoFlags
    /\ last = NoTrace
    /\ rec = NoRec
    /\ stop_requested = FALSE
    /\ start_error = "none"
    /\ market = "none"
    /\ signal = NoSignal
    /\ enforced = NoEnforced
    /\ window = NoWindow
    /\ d_signal = PendingDSignal
    /\ shutdown = NoShutdown
    /\ account = NoAccount
    /\ account_summary = NoSummary
    /\ position_data = NoPositionData
    /\ close_report = NoReport
    /\ ServicesAtRest

snapshotVars == <<account, account_summary>>
reportVars == <<position_data, close_report>>
pieceVars == <<signal, enforced, window, d_signal, shutdown, snapshotVars,
               reportVars>>
engineVars == <<last_candle_time, open_trades, broker_positions, next_ticket>>
cycleVars == <<sym_idx, strat_idx, indicator_atr, prev_time, candles_tf,
               new_candle_for_tf, last, rec>>

\* stop(): the flag is cleared and strategy.stop() called on every binding
\* (which clears its active flag) before the first await of the coroutine.
StopEffect ==
    /\ is_running' = FALSE
    /\ active' = {k \in active : k \notin strategies}
    /\ stop_requested' = TRUE

\* start() up to its awaits on the bridge and the event bus
\* (_setup_bridge, event_bus.connect), where other tasks run.
Start ==
    /\ pc = "init"
    /\ pc' = "starting"
    /\ UNCHANGED <<is_running, strategies, active, stop_requested, start_error,
                   market, engineVars, cycleVars, unitVars>>

\* The rest of start(): handlers, risk management, registration, the
\* running flag, ENGINE_STARTED, then the main loop; any failure, of the
\* awaited steps too, runs stop() and re-raises.
StartRun ==
    /\ pc = "starting"
    /\ \/ /\ strategies' = AllKeys
          /\ active' = AllKeys
          /\ is_running' = TRUE
          /\ pc' = "top"
          /\ UNCHANGED <<stop_requested, start_error>>
       \/ \E f \in StartFailures :
            /\ strategies' \in RegisteredAfter(f)
            /\ active' = {}
            /\ is_running' = FALSE
            /\ stop_requested' = TRUE
            /\ start_error' = f
            /\ pc' = "failed"
    /\ UNCHANGED <<market, engineVars, cycleVars, unitVars>>

\* stop() called by another task (signal handler, explicit shutdown) while
\* start() is suspended in one of its awaits or the loop runs.
Stop ==
    /\ is_running \/ pc = "starting"
    /\ StopEffect
    /\ UNCHANGED <<pc, strategies, start_error, market, engineVars, cycleVars,
                   unitVars>>

\* `while self._is_running:` and the market-hours gate of a cycle.
CycleTop ==
    /\ pc = "top"
    /\ IF ~is_running
         THEN pc' = "exited" /\ UNCHANGED market
         ELSE \E m \in MarketStates :
                /\ market' = m
                /\ pc' = GateTarget(m)
    /\ stop_requested' = FALSE
    /\ sym_idx' = 1
    /\ strat_idx' = 1
    /\ UNCHANGED <<is_running, strategies, active, engineVars, indicator_atr,
                   prev_time, candles_tf, new_candle_for_tf, last, rec,
                   start_error, unitVars>>

\* The bindings in keys, in the order of self._strategies.
RECURSIVE KeysInOrder(_)
KeysInOrder(keys) ==
    IF keys = {} THEN << >>
    ELSE LET k == CHOOSE x \in keys : \A y \in keys : KeyIndex(x) <= KeyIndex(y)
         IN <<k>> \o KeysInOrder(keys \ {k})

\* The timeframe of each binding of a symbol, binding by binding.
BindingTimeframes(keys) ==
    [i \in 1..Len(KeysInOrder(keys)) |-> Timeframe(KeysInOrder(keys)[i])]

\* A sequence without its repeated entries, first occurrences kept.
RECURSIVE Distinct(_)
Distinct(seq) ==
    IF seq = << >> THEN << >>
    ELSE LET front == Distinct(SubSeq(seq, 1, Len(seq) - 1))
             x == seq[Len(seq)]
         IN IF \E i \in 1..Len(front) : front[i] = x THEN front
            ELSE Append(front, x)

\* A detection loop that runs once per binding.
TimeframeOrderMut(keys) == BindingTimeframes(keys)

\* The keys of strategy_timeframes in insertion order: the dict is keyed by
\* timeframe, so `for tf in strategy_timeframes` visits each once.
TimeframeOrder(keys) == Distinct(BindingTimeframes(keys))

\* `for tf in strategy_timeframes`: fetch and detect in turn; cursors and
\* flags map the symbol's timeframes to the cursor and flag so far.
RECURSIVE DetectAll(_, _, _, _)
DetectAll(order, cursors, flags, feeds) ==
    IF order = << >> THEN [cursor |-> cursors, new |-> flags]
    ELSE LET tf == Head(order)
             d == DetectNewCandle(cursors[tf], feeds[tf])
         IN DetectAll(Tail(order), [cursors EXCEPT ![tf] = d.cursor],
                      [flags EXCEPT ![tf] = d.new], feeds)

\* Per symbol: indicators, then one candle fetch and detection per
\* timeframe of the symbol's bindings.
FetchSymbol ==
    /\ pc = "fetch"
    /\ LET sym == Symbols[sym_idx]
           keys == {k \in strategies : k[1] = sym}
           tfs == StrategyTimeframes(keys)
       IN /\ \E a \in AtrValues : indicator_atr' = a
          /\ \E feeds \in [tfs -> CandleFeeds] :
               LET res == DetectAll(TimeframeOrder(keys),
                                    [tf \in tfs |-> last_candle_time[<<sym, tf>>]],
                                    [tf \in tfs |-> FALSE], feeds)
               IN /\ candles_tf' = feeds
                  /\ prev_time' = [tf \in tfs |-> last_candle_time[<<sym, tf>>]]
                  /\ new_candle_for_tf' = res.new
                  /\ last_candle_time' =
                       [k \in CandleKeys |->
                          IF k[1] = sym /\ k[2] \in tfs
                            THEN res.cursor[k[2]]
                            ELSE last_candle_time[k]]
    /\ pc' = "bindings"
    /\ strat_idx' = 1
    /\ last' = NoTrace
    /\ UNCHANGED <<is_running, strategies, active, open_trades, broker_positions,
                   next_ticket, sym_idx, rec, stop_requested, start_error, market,
                   unitVars>>

\* One binding of the current symbol goes through the pipeline.  The locals
\* of the detection are dead from here on, and the per-symbol locals once
\* the symbol's last binding is done.
RunBinding ==
    /\ pc = "bindings"
    /\ LET key == <<Symbols[sym_idx], StrategyCodes[strat_idx]>> IN
       \E t \in {ProcessBinding(key, new_candle_for_tf, key \in active,
                                 indicator_atr, o, next_ticket) :
                    o \in {x \in OutcomesFor(WaitsForCandle(new_candle_for_tf,
                                                           Timeframe(key)),
                                            key \in active, indicator_atr, key[1]) :
                             x.order = "ok" => next_ticket <= MaxTickets}} :
            /\ last' = t
            /\ open_trades' = IF t.tracked THEN open_trades \cup {t.ticket}
                                           ELSE open_trades
            /\ broker_positions' = IF t.ticket # 0
                                     THEN broker_positions \cup {t.ticket}
                                     ELSE broker_positions
            /\ next_ticket' = IF t.ticket # 0 THEN next_ticket + 1 ELSE next_ticket
            /\ IF ~t.escaped /\ strat_idx < Len(StrategyCodes)
                 THEN /\ strat_idx' = strat_idx + 1
                      /\ UNCHANGED <<pc, sym_idx, indicator_atr, new_candle_for_tf>>
                 ELSE /\ indicator_atr' = None
                      /\ new_candle_for_tf' = NoFlags
                      /\ strat_idx' = 1
                      /\ IF t.escaped
                           THEN pc' = "cycle_error" /\ sym_idx' = 1
                           ELSE IF sym_idx < Len(Symbols)
                                  THEN pc' = "fetch" /\ sym_idx' = sym_idx + 1
                                  ELSE pc' = "reconcile" /\ sym_idx' = 1
    /\ prev_time' = NoFlags
    /\ candles_tf' = NoFlags
    /\ UNCHANGED <<is_running, strategies, active, last_candle_time, rec,
                   stop_requested, start_error, market, unitVars>>

\* _check_closed_positions(): the whole pass.
CheckClosedPositions ==
    /\ pc = "reconcile"
    /\ IF RecordEmpty(open_trades)
         THEN /\ rec' = NoRec
              /\ UNCHANGED open_trades
         ELSE \/ /\ rec' = [NoRec EXCEPT !.ran = TRUE]
                 /\ open_trades' = OnPositionsError(open_trades)
              \/ \E f \in [ClosedTickets(open_trades, broker_positions)
                               -> CloseOutcomes] :
                   LET closed == ReachedTickets(DOMAIN f, f) IN
                   /\ rec' = [ran |-> TRUE, fetched |-> TRUE,
                              open_tickets |-> broker_positions,
                              closed |-> closed,
                              outcome |-> [t \in closed |-> f[t]],
                              persisted |-> {t \in closed : ClosePersisted(f[t])},
                              notified |-> {t \in closed : CloseNotified(f[t])}]
                   /\ open_trades' = PopClosed(open_trades, closed)
    /\ pc' = "summary"
    /\ last' = NoTrace
    /\ UNCHANGED <<is_running, strategies, active, last_candle_time,
                   broker_positions, next_ticket, sym_idx, strat_idx,
                   indicator_atr, prev_time, candles_tf, new_candle_for_tf,
                   stop_requested, start_error, market, unitVars>>

\* Account snapshot, the engine_cycle summary and the brain's process_cycle.
CycleSummary ==
    /\ pc = "summary"
    /\ pc' = "sleep"
    /\ rec' = NoRec
    /\ UNCHANGED <<is_running, strategies, active, engineVars, sym_idx, strat_idx,
                   indicator_atr, prev_time, candles_tf, new_candle_for_tf, last,
                   stop_requested, start_error, market, unitVars>>

\* The cycle's `except Exception` handler: the SYSTEM_ERROR publish is not
\* guarded; when it raises, the exception leaves the while loop and
\* _main_loop re-raises it.
CycleError ==
    /\ pc = "cycle_error"
    /\ \/ pc' = "sleep"
       \/ pc' = "crashed"
    /\ last' = NoTrace
    /\ UNCHANGED <<is_running, active, strategies, engineVars, sym_idx, strat_idx,
                   indicator_atr, prev_time, candles_tf, new_candle_for_tf, rec,
                   stop_requested, start_error, market, unitVars>>

\* start()'s `except Exception` after _main_loop raised: stop(), re-raise.
StartAbort ==
    /\ pc = "crashed"
    /\ pc' = "failed"
    /\ StopEffect
    /\ UNCHANGED <<strategies, start_error, market, engineVars, cycleVars,
                   unitVars>>

\* `await asyncio.sleep(self._loop_interval)`: the cycle is over, and with
\* it what its gate found.
Sleep ==
    /\ pc = "sleep"
    /\ pc' = "top"
    /\ market' = "none"
    /\ UNCHANGED <<is_running, strategies, active, engineVars, cycleVars,
                   stop_requested, start_error, unitVars>>

\* The broker closes a position (stop-loss or take-profit hit).
BrokerClose ==
    /\ \E t \in broker_positions : broker_positions' = broker_positions \ {t}
    /\ UNCHANGED <<pc, is_running, strategies, active, last_candle_time,
                   open_trades, next_ticket, cycleVars, stop_requested,
                   start_error, market, unitVars>>

Next ==
    \/ Start
    \/ StartRun
    \/ Stop
    \/ CycleTop
    \/ FetchSymbol
    \/ RunBinding
    \/ CheckClosedPositions
    \/ CycleSummary
    \/ CycleError
    \/ StartAbort
    \/ Sleep
    \/ BrokerClose

Spec == Init /\ [][Next]_vars

\* ------------------------------------------------------ unit specifications
\* Each applies one piece of the program once to inputs drawn from a wider
\* set than a run of the whole engine supplies.  pc is "call" before the
\* piece has run and "returned" after.

\* The per-binding pipeline for a binding with a new candle whose run_cycle
\* returns `signal`, with indicator_values["atr"] = indicator_atr.
InitEnforce ==
    /\ pc = "call"
    /\ is_running = TRUE
    /\ strategies = AllKeys
    /\ active = AllKeys
    /\ last_candle_time = [k \in CandleKeys |-> None]
    /\ open_trades = {}
    /\ broker_positions = {}
    /\ next_ticket = 1
    /\ sym_idx \in 1..Len(Symbols)
    /\ strat_idx \in 1..Len(StrategyCodes)
    /\ indicator_atr \in EnforceAtrValues
    /\ prev_time = NoFlags
    /\ candles_tf = NoFlags
    /\ new_candle_for_tf = [tf \in {"M15"} |-> TRUE]
    /\ last = NoTrace
    /\ rec = NoRec
    /\ stop_requested = FALSE
    /\ start_error = "none"
    /\ market = "open"
    /\ signal \in EnforceSignals
    /\ enforced = NoEnforced
    /\ window = NoWindow
    /\ d_signal = PendingDSignal
    /\ shutdown = NoShutdown
    /\ account = NoAccount
    /\ account_summary = NoSummary
    /\ position_data = NoPositionData
    /\ close_report = NoReport
    /\ ServicesAtRest

EnforceBinding ==
    /\ pc = "call"
    /\ signal # NoSignal
    /\ LET key == <<Symbols[sym_idx], StrategyCodes[strat_idx]>> IN
       \E o \in EnforceOutcomes(signal) :
         LET t == ProcessBinding(key, new_candle_for_tf, key \in active,
                                 indicator_atr, o, next_ticket) IN
         /\ last' = t
         /\ enforced' = EnforceSLTP(signal, indicator_atr, key[1])
         /\ open_trades' = IF t.tracked THEN open_trades \cup {t.ticket}
                                        ELSE open_trades
         /\ broker_positions' = IF t.ticket # 0
                                  THEN broker_positions \cup {t.ticket}
                                  ELSE broker_positions
         /\ next_ticket' = IF t.ticket # 0 THEN next_ticket + 1 ELSE next_ticket
    /\ pc' = "returned"
    /\ UNCHANGED <<is_running, strategies, active, last_candle_time, sym_idx,
                   strat_idx, indicator_atr, prev_time, candles_tf,
                   new_candle_for_tf, rec, stop_requested, start_error, market,
                   signal, window, d_signal, shutdown, snapshotVars, reportVars,
                   serviceVars>>

NextEnforce == EnforceBinding

EnforceSpec == InitEnforce /\ [][NextEnforce]_vars

\* StrategyD.generate_signal on one candle window.
InitStrategyD ==
    /\ pc = "call"
    /\ is_running = FALSE
    /\ strategies = {}
    /\ active = {}
    /\ last_candle_time = [k \in CandleKeys |-> None]
    /\ open_trades = {}
    /\ broker_positions = {}
    /\ next_ticket = 1
    /\ sym_idx = 1
    /\ strat_idx = 1
    /\ indicator_atr = None
    /\ prev_time = NoFlags
    /\ candles_tf = NoFlags
    /\ new_candle_for_tf = NoFlags
    /\ last = NoTrace
    /\ rec = NoRec
    /\ stop_requested = FALSE
    /\ start_error = "none"
    /\ market = "none"
    /\ signal = NoSignal
    /\ enforced = NoEnforced
    /\ window \in DWindows
    /\ d_signal = PendingDSignal
    /\ shutdown = NoShutdown
    /\ account = NoAccount
    /\ account_summary = NoSummary
    /\ position_data = NoPositionData
    /\ close_report = NoReport
    /\ ServicesAtRest

GenerateSignalCall ==
    /\ pc = "call"
    /\ window # NoWindow
    /\ d_signal' = GenerateSignal(window)
    /\ pc' = "returned"
    /\ UNCHANGED <<is_running, strategies, active, engineVars, cycleVars,
                   stop_requested, start_error, market, signal, enforced, window,
                   shutdown, snapshotVars, reportVars,
                   serviceVars>>

NextStrategyD == GenerateSignalCall

StrategyDSpec == InitStrategyD /\ [][NextStrategyD]_vars

\* One reconciliation pass on any Open Trade Record and any set of
\* positions open at the broker.
InitReconcile ==
    /\ pc = "reconcile"
    /\ is_running = TRUE
    /\ strategies = AllKeys
    /\ active = AllKeys
    /\ last_candle_time = [k \in CandleKeys |-> None]
    /\ open_trades \in SUBSET (1..MaxTracked)
    /\ broker_positions \in SUBSET (1..MaxTracked)
    /\ next_ticket = MaxTracked + 1
    /\ sym_idx = 1
    /\ strat_idx = 1
    /\ indicator_atr = None
    /\ prev_time = NoFlags
    /\ candles_tf = NoFlags
    /\ new_candle_for_tf = NoFlags
    /\ last = NoTrace
    /\ rec = NoRec
    /\ stop_requested = FALSE
    /\ start_error = "none"
    /\ market = "open"
    /\ signal = NoSignal
    /\ enforced = NoEnforced
    /\ window = NoWindow
    /\ d_signal = PendingDSignal
    /\ shutdown = NoShutdown
    /\ account = NoAccount
    /\ account_summary = NoSummary
    /\ position_data = NoPositionData
    /\ close_report = NoReport
    /\ ServicesAtRest

NextReconcile == CheckClosedPositions

ReconcileSpec == InitReconcile /\ [][NextReconcile]_vars

\* One stop() call on an engine in any lifecycle state: running or not,
\* with any part of the bindings registered, the bridge set up or not.
InitStop ==
    /\ pc = "call"
    /\ is_running \in BOOLEAN
    /\ strategies \in SUBSET AllKeys
    /\ active = strategies
    /\ last_candle_time = [k \in CandleKeys |-> None]
    /\ open_trades = {}
    /\ broker_positions = {}
    /\ next_ticket = 1
    /\ sym_idx = 1
    /\ strat_idx = 1
    /\ indicator_atr = None
    /\ prev_time = NoFlags
    /\ candles_tf = NoFlags
    /\ new_candle_for_tf = NoFlags
    /\ last = NoTrace
    /\ rec = NoRec
    /\ stop_requested = FALSE
    /\ start_error = "none"
    /\ market = "none"
    /\ signal = NoSignal
    /\ enforced = NoEnforced
    /\ window = NoWindow
    /\ d_signal = PendingDSignal
    /\ shutdown \in {[NoShutdown EXCEPT !.connector = c] : c \in BOOLEAN}
    /\ account = NoAccount
    /\ account_summary = NoSummary
    /\ position_data = NoPositionData
    /\ close_report = NoReport
    /\ ServicesAtRest

StopCall ==
    /\ pc = "call"
    /\ \E o \in StopOutcomes(strategies) :
         shutdown' = StopTrace(strategies, shutdown.connector, o)
    /\ StopEffect
    /\ pc' = "returned"
    /\ UNCHANGED <<strategies, start_error, market, engineVars, cycleVars,
                   signal, enforced, window, d_signal, snapshotVars, reportVars,
                   serviceVars>>

NextStop == StopCall

StopSpec == InitStop /\ [][NextStop]_vars

\* The account block of one cycle.
InitSnapshot ==
    /\ pc = "call"
    /\ is_running = TRUE
    /\ strategies = AllKeys
    /\ active = AllKeys
    /\ last_candle_time = [k \in CandleKeys |-> None]
    /\ open_trades = {}
    /\ broker_positions = {}
    /\ next_ticket = 1
    /\ sym_idx = 1
    /\ strat_idx = 1
    /\ indicator_atr = None
    /\ prev_time = NoFlags
    /\ candles_tf = NoFlags
    /\ new_candle_for_tf = NoFlags
    /\ last = NoTrace
    /\ rec = NoRec
    /\ stop_requested = FALSE
    /\ start_error = "none"
    /\ market = "open"
    /\ signal = NoSignal
    /\ enforced = NoEnforced
    /\ window = NoWindow
    /\ d_signal = PendingDSignal
    /\ shutdown = NoShutdown
    /\ account \in Accounts
    /\ account_summary = NoSummary
    /\ position_data = NoPositionData
    /\ close_report = NoReport
    /\ ServicesAtRest

TakeSnapshot ==
    /\ pc = "call"
    /\ account_summary' = AccountSummary(account)
    /\ pc' = "returned"
    /\ UNCHANGED <<is_running, strategies, active, engineVars, cycleVars,
                   stop_requested, start_error, market, signal, enforced, window,
                   d_signal, shutdown, account, reportVars,
                   serviceVars>>

NextSnapshot == TakeSnapshot

SnapshotSpec == InitSnapshot /\ [][NextSnapshot]_vars

\* The analytics notification of one closure whose trade row was found and
\* closed.
InitReport ==
    /\ pc = "call"
    /\ is_running = TRUE
    /\ strategies = AllKeys
    /\ active = AllKeys
    /\ last_candle_time = [k \in CandleKeys |-> None]
    /\ open_trades = {}
    /\ broker_positions = {}
    /\ next_ticket = 1
    /\ sym_idx = 1
    /\ strat_idx = 1
    /\ indicator_atr = None
    /\ prev_time = NoFlags
    /\ candles_tf = NoFlags
    /\ new_candle_for_tf = NoFlags
    /\ last = NoTrace
    /\ rec = NoRec
    /\ stop_requested = FALSE
    /\ start_error = "none"
    /\ market = "open"
    /\ signal = NoSignal
    /\ enforced = NoEnforced
    /\ window = NoWindow
    /\ d_signal = PendingDSignal
    /\ shutdown = NoShutdown
    /\ account = NoAccount
    /\ account_summary = NoSummary
    /\ position_data \in PositionDatas \cup {NoPositionData}
    /\ close_report = NoReport
    /\ ServicesAtRest

NotifyClosure ==
    /\ pc = "call"
    /\ close_report' = CloseReport(position_data)
    /\ pc' = "returned"
    /\ UNCHANGED <<is_running, strategies, active, engineVars, cycleVars,
                   stop_requested, start_error, market, signal, enforced, window,
                   d_signal, shutdown, snapshotVars, position_data,
                   serviceVars>>

NextReport == NotifyClosure

ReportSpec == InitReport /\ [][NextReport]_vars

\* The insights history of the brain: insights are stored one after the
\* other and get_insights is called at any point.
InitInsights ==
    /\ pc = "serving"
    /\ EngineAtRest
    /\ PiecesAtRest
    /\ InsightsAtRest
    /\ AnalysisAtRest
    /\ SettingsAtRest
    /\ EvalsAtRest

StoreInsightCall ==
    /\ pc = "serving"
    /\ insights_stored < MaxStored
    /\ insights_stored' = insights_stored + 1
    /\ insights_history' = StoreInsight(insights_history, insights_stored + 1)
    /\ UNCHANGED <<pc, is_running, strategies, active, engineVars, cycleVars,
                   stop_requested, start_error, market, pieceVars,
                   insights_result, analysisVars, settingsVars, eval_count>>

GetInsightsCall ==
    /\ pc = "serving"
    /\ \E limit \in GetLimits :
         insights_result' = [limit |-> limit, stored |-> insights_stored,
                             items |-> GetInsights(insights_history, limit)]
    /\ UNCHANGED <<pc, is_running, strategies, active, engineVars, cycleVars,
                   stop_requested, start_error, market, pieceVars,
                   insights_history, insights_stored, analysisVars,
                   settingsVars, eval_count>>

NextInsights ==
    \/ StoreInsightCall
    \/ GetInsightsCall

InsightsSpec == InitInsights /\ [][NextInsights]_vars

\* analyze_market called from concurrently scheduled tasks: a task runs
\* from one await to the next without interruption.
InitAnalysis ==
    /\ pc = "serving"
    /\ EngineAtRest
    /\ PiecesAtRest
    /\ InsightsAtRest
    /\ AnalysisAtRest
    /\ SettingsAtRest
    /\ EvalsAtRest

\* analyze_market up to `await self._call_gpt(...)`, or to its early return.
AnalyzeMarketBegin(t) ==
    /\ pc = "serving"
    /\ analysis[t].state # "calling"
    /\ LET since == clock - (IF llm_calls = << >> THEN 0
                             ELSE llm_calls[Len(llm_calls)])
       IN IF TooSoon(clock, last_analysis_time)
            THEN /\ analysis' = [analysis EXCEPT ![t] =
                                   [state |-> "too_soon", since |-> since,
                                    called |-> FALSE, stored |-> FALSE]]
                 /\ UNCHANGED <<last_analysis_time, llm_calls>>
            ELSE /\ last_analysis_time' = StampOnPass(clock, last_analysis_time)
                 /\ llm_calls' = Append(llm_calls, clock)
                 /\ analysis' = [analysis EXCEPT ![t] =
                                   [state |-> "calling", since |-> since,
                                    called |-> TRUE, stored |-> FALSE]]
    /\ UNCHANGED <<pc, is_running, strategies, active, engineVars, cycleVars,
                   stop_requested, start_error, market, pieceVars, insightVars,
                   clock, settingsVars, eval_count>>

\* The LLM call returns: a response is stored as an insight, an empty one
\* is not.
AnalyzeMarketEnd(t) ==
    /\ pc = "serving"
    /\ analysis[t].state = "calling"
    /\ \/ /\ insights_history' = StoreInsight(insights_history, insights_stored + 1)
          /\ insights_stored' = insights_stored + 1
          /\ analysis' = [analysis EXCEPT ![t].state = "done", ![t].stored = TRUE]
       \/ /\ analysis' = [analysis EXCEPT ![t].state = "done"]
          /\ UNCHANGED <<insights_history, insights_stored>>
    /\ UNCHANGED <<pc, is_running, strategies, active, engineVars, cycleVars,
                   stop_requested, start_error, market, pieceVars,
                   insights_result, clock, last_analysis_time, llm_calls,
                   settingsVars, eval_count>>

\* Time passes.
Tick ==
    /\ pc = "serving"
    /\ \E d \in TickSteps :
         /\ clock + d <= AnalysisInterval + MaxElapsed
         /\ clock' = clock + d
    /\ UNCHANGED <<pc, is_running, strategies, active, engineVars, cycleVars,
                   stop_requested, start_error, market, pieceVars, insightVars,
                   last_analysis_time, llm_calls, analysis, settingsVars,
                   eval_count>>

NextAnalysis ==
    \/ \E t \in AnalysisTasks : AnalyzeMarketBegin(t)
    \/ \E t \in AnalysisTasks : AnalyzeMarketEnd(t)
    \/ Tick

AnalysisSpec == InitAnalysis /\ [][NextAnalysis]_vars

\* The settings routes serving requests one at a time.
InitSettings ==
    /\ pc = "serving"
    /\ EngineAtRest
    /\ PiecesAtRest
    /\ InsightsAtRest
    /\ AnalysisAtRest
    /\ redis_symbols = NoOverride
    /\ settings_response = NoSettingsResponse
    /\ supported_symbols \in SupportedChoices
    /\ EvalsAtRest

UpdateTradingSymbols ==
    /\ pc = "serving"
    /\ \E body \in Bodies, redis_ok \in BOOLEAN :
         LET u == UpdateResponse(body, supported_symbols, redis_symbols, redis_ok)
         IN /\ redis_symbols' = u.stored
            /\ settings_response' = u.response
    /\ UNCHANGED <<pc, is_running, strategies, active, engineVars, cycleVars,
                   stop_requested, start_error, market, pieceVars, insightVars,
                   analysisVars, supported_symbols, eval_count>>

GetTradingSymbols ==
    /\ pc = "serving"
    /\ \E redis_ok \in BOOLEAN :
         settings_response' = GetResponse(redis_symbols, redis_ok)
    /\ UNCHANGED <<pc, is_running, strategies, active, engineVars, cycleVars,
                   stop_requested, start_error, market, pieceVars, insightVars,
                   analysisVars, redis_symbols, supported_symbols, eval_count>>

NextSettings ==
    \/ UpdateTradingSymbols
    \/ GetTradingSymbols

SettingsSpec == InitSettings /\ [][NextSettings]_vars

\* The candle-change detection and the new-candle gate of one symbol over
\* many cycles, in cycles whose binding loop no error escapes; any of the
\* bindings may be paused.
InitDetection ==
    /\ pc = "fetch"
    /\ is_running = TRUE
    /\ strategies = AllKeys
    /\ active \in SUBSET AllKeys
    /\ last_candle_time = [k \in CandleKeys |-> None]
    /\ open_trades = {}
    /\ broker_positions = {}
    /\ next_ticket = 1
    /\ sym_idx = 1
    /\ strat_idx = 1
    /\ indicator_atr = None
    /\ prev_time = NoFlags
    /\ candles_tf = NoFlags
    /\ new_candle_for_tf = NoFlags
    /\ last = NoTrace
    /\ rec = NoRec
    /\ stop_requested = FALSE
    /\ start_error = "none"
    /\ market = "open"
    /\ PiecesAtRest
    /\ InsightsAtRest
    /\ AnalysisAtRest
    /\ SettingsAtRest
    /\ EvalsAtRest

\* One cycle's detection for a symbol and the gate of each of its bindings:
\* a binding that passes the gate and is active is evaluated for the latest
\* timestamp of its timeframe's candles.
DetectAndEvaluate(sym) ==
    /\ pc = "fetch"
    /\ LET keys == {k \in strategies : k[1] = sym}
           tfs == StrategyTimeframes(keys)
       IN \E feeds \in [tfs -> CandleFeeds] :
            LET res == DetectAll(TimeframeOrder(keys),
                                 [tf \in tfs |-> last_candle_time[<<sym, tf>>]],
                                 [tf \in tfs |-> FALSE], feeds)
                ran == {k \in keys :
                          ProcessBinding(k, res.new, k \in active, None,
                                         DefaultOutcome, next_ticket).evaluated}
            IN /\ \A k \in ran :
                    eval_count[k][feeds[Timeframe(k)].latest] < MaxEvals
               /\ eval_count' =
                    [k \in AllKeys |->
                       IF k \in ran
                         THEN [eval_count[k] EXCEPT
                                 ![feeds[Timeframe(k)].latest] = @ + 1]
                         ELSE eval_count[k]]
               /\ last_candle_time' =
                    [k \in CandleKeys |->
                       IF k[1] = sym /\ k[2] \in tfs
                         THEN res.cursor[k[2]]
                         ELSE last_candle_time[k]]
    /\ UNCHANGED <<pc, is_running, strategies, active, open_trades,
                   broker_positions, next_ticket, cycleVars, stop_requested,
                   start_error, market, pieceVars, insightVars, analysisVars,
                   settingsVars>>

NextDetection == \E i \in 1..Len(Symbols) : DetectAndEvaluate(Symbols[i])

DetectionSpec == InitDetection /\ [][NextDetection]_vars

\* ------------------------------------------------------------------ claims
BindingDone == last.key # NoKey

\* C1: every open_position call carries a stop-loss and a take-profit that
\* are both present and strictly positive, and a signal that the
\* enforcement discards (no stops derivable, or a non-positive stop after
\* derivation) reaches neither the risk gate nor open_position.
C1_OrderCarriesPositiveStops ==
    /\ last.order # "none" =>
         /\ last.order_sl # None /\ last.order_sl > 0
         /\ last.order_tp # None /\ last.order_tp > 0
    /\ last.status \in {"skipped_no_sl_tp", "invalid_sl_tp"} =>
         last.risk = "none" /\ last.order = "none" /\ last.ticket = 0

\* An order went out with a stop-loss the orchestrator derived from the ATR
\* (EURUSD BUY at 4 with ATR 2: 4 - 1.5 * 2 = 1).
C1_Witness == last.order = "ok" /\ last.order_sl = 1

\* C2: a signal whose pre_trade_check returned approved=false is not
\* submitted: no open_position call, no ticket, no Open Trade Record entry
\* and no persisted trade.
C2_RejectedNeverSubmitted ==
    last.risk = "rejected" =>
      /\ last.order = "none"
      /\ last.ticket = 0
      /\ ~last.tracked
      /\ ~last.persisted

C2_Witness == last.risk = "rejected" /\ last.publish = "ok"

\* C3: when open_position returned a ticket and the persistence of the
\* trade entry then fails, the ticket is still in the Open Trade Record.
C3_TrackedWhenPersistenceFails ==
    (last.ticket # 0 /\ last.db = "raise") => last.ticket \in open_trades

\* C4: when open_position succeeded and the TRADE_OPENED publish or the
\* brain notification raises (the database working), the ticket is still in
\* the Open Trade Record and the trade entry is persisted.
C4_TrackedWhenNotificationFails ==
    (last.ticket # 0 /\ (last.publish = "raise" \/ last.brain = "raise")
                     /\ last.db # "raise")
      => (last.ticket \in open_trades /\ last.persisted)

\* C5: the main loop is left only through the running flag: whatever a
\* collaborator does inside a cycle, the loop has exited only if the
\* running flag is false.
C5_LoopExitsOnlyWhenStopped == pc \in {"exited", "crashed"} => ~is_running

\* C6: a reconciliation pass that got the broker's open positions removes
\* exactly the tracked tickets absent from them, whatever happens while
\* they are processed, and processes no other ticket; repeating the pass on
\* the same broker set finds nothing to close; a pass that could not fetch
\* removes nothing; tickets leave the record only in a pass and only a
\* fresh ticket enters it, so a ticket is removed at most once.
C6_RemovedOnceAndIdempotent ==
    [][/\ (pc = "reconcile" /\ pc' = "summary" /\ rec'.fetched) =>
            /\ open_trades' = open_trades \cap broker_positions
            /\ rec'.closed = open_trades \ open_trades'
            /\ (rec'.persisted \cup rec'.notified) \subseteq rec'.closed
            /\ ClosedTickets(open_trades', rec'.open_tickets) = {}
       /\ (pc = "reconcile" /\ pc' = "summary" /\ ~rec'.fetched) =>
            open_trades' = open_trades
       /\ pc # "reconcile" => open_trades \subseteq open_trades'
       /\ \A t \in open_trades' \ open_trades : t = next_ticket /\ next_ticket' > t
      ]_vars

C6_Witness == pc = "summary" /\ rec.fetched /\ rec.closed # {}

\* C7: every ticket a pass removed from the Open Trade Record had its
\* closure persisted (close_trade) and notified to the brain in that pass.
C7_ClosureProcessedExactlyOnce ==
    rec.closed \subseteq rec.persisted /\ rec.closed \subseteq rec.notified

\* C8: a detection never leaves a cursor earlier than the one it found.
C8_CursorMonotone ==
    \A tf \in DOMAIN prev_time :
      prev_time[tf] # None =>
        last_candle_time[<<Symbols[sym_idx], tf>>] >= prev_time[tf]

C10_EvaluatedOnlyOnNewCandle ==
    /\ last.evaluated => last.new_flag
    /\ (BindingDone /\ ~last.new_flag) =>
         /\ last.status = "waiting_for_candle"
         /\ ~last.evaluated
         /\ last.risk = "none"
         /\ last.order = "none"
    /\ (BindingDone /\ pc = "bindings") =>
         /\ last.key[1] = Symbols[sym_idx]
         /\ last.new_flag = NewCandleFlag(new_candle_for_tf, Timeframe(last.key))

C10_Witness == BindingDone /\ ~last.new_flag /\ last.status = "waiting_for_candle"

\* C11: a signal that lacks a positive stop-loss or a positive take-profit
\* while the cycle has no positive ATR for its symbol is discarded with the
\* status "skipped_no_sl_tp": pre_trade_check and open_position are not
\* called for it.
C11_NoStopsNoAtrDiscarded ==
    (/\ pc = "returned"
     /\ \/ signal.stop_loss = None \/ signal.stop_loss <= 0
        \/ signal.take_profit = None \/ signal.take_profit <= 0
     /\ indicator_atr = None \/ indicator_atr <= 0)
      => /\ last.status = "skipped_no_sl_tp"
         /\ enforced.status = "skipped_no_sl_tp"
         /\ last.risk = "none"
         /\ last.order = "none"
         /\ last.ticket = 0

\* A signal with a stop-loss but no take-profit met an ATR of 0.
C11_Witness ==
    /\ pc = "returned"
    /\ signal.stop_loss = 3 /\ signal.take_profit = None
    /\ indicator_atr = 0
    /\ last.evaluated /\ last.status = "skipped_no_sl_tp"

\* C12: with a positive ATR, a stop-loss the orchestrator derives is below
\* the entry for BUY and above it for SELL, a derived take-profit the other
\* way round, each at ATR times the symbol's multiplier (1.5 / 2.0, for
\* XAUUSD 2.0 / 2.5) from the entry; a signal that reaches the risk gate
\* has both prices strictly positive, and an order carries these prices.
C12_DerivedStopsOnCorrectSide ==
    (pc = "returned" /\ indicator_atr # None /\ indicator_atr > 0) =>
      LET gold == Symbols[sym_idx] = "XAUUSD"
          sign == IF signal.direction = "BUY" THEN 1 ELSE -1
          entry == signal.entry_price
      IN /\ (signal.stop_loss = None \/ signal.stop_loss <= 0) =>
              /\ sign * (entry - enforced.sl) > 0
              /\ 2 * sign * (entry - enforced.sl)
                   = indicator_atr * (IF gold THEN 4 ELSE 3)
         /\ (signal.take_profit = None \/ signal.take_profit <= 0) =>
              /\ sign * (enforced.tp - entry) > 0
              /\ 2 * sign * (enforced.tp - entry)
                   = indicator_atr * (IF gold THEN 5 ELSE 4)
         /\ last.risk # "none" => (enforced.sl > 0 /\ enforced.tp > 0)
         /\ last.order # "none" =>
              (last.order_sl = enforced.sl /\ last.order_tp = enforced.tp)

\* A SELL on XAUUSD at 10 without stop-loss and ATR 4 got 10 + 2.0 * 4 = 18
\* and went on to an order.
C12_Witness ==
    /\ pc = "returned"
    /\ signal.direction = "SELL" /\ signal.stop_loss = None
    /\ signal.entry_price = 10 /\ indicator_atr = 4
    /\ Symbols[sym_idx] = "XAUUSD"
    /\ enforced.sl = 18
    /\ last.order = "ok" /\ last.order_sl = 18

\* C13: generate_signal returns None for every window in which a BUY
\* trigger (close below the lower band, RSI below oversold, bullish
\* momentum burst) and a SELL trigger (close above the upper band, RSI above
\* overbought, bearish momentum burst) fire together.
C13_ConflictGivesNone ==
    (/\ pc = "returned"
     /\ \/ window.close < window.lower_band
        \/ window.rsi < window.config.rsi_oversold
        \/ MomentumBuy(window)
     /\ \/ window.close > window.upper_band
        \/ window.rsi > window.config.rsi_overbought
        \/ MomentumSell(window))
      => d_signal.kind = "none"

\* A sufficient window with the close below the lower band and the RSI
\* above overbought.
C13_Witness ==
    /\ pc = "returned"
    /\ window.len >= 25 /\ ~window.nan
    /\ window.close < window.lower_band
    /\ window.rsi > window.config.rsi_overbought
    /\ window.atr = 2
    /\ d_signal.kind = "none"

\* C14: on a sufficient window with defined indicators, triggers of exactly
\* one direction (one is enough) give that direction with SL = close - ATR
\* and TP = close + 1.5 ATR for BUY, SL = close + ATR and TP = close - 1.5
\* ATR for SELL, returned when both prices are strictly positive and None
\* otherwise; no trigger gives None.
C14_OneDirectionGivesSignal ==
    (/\ pc = "returned"
     /\ window.len >= MinData(window.config)
     /\ ~window.nan) =>
      LET buy == BuySignals(window) # {}
          sell == SellSignals(window) # {}
          sign == IF buy THEN 1 ELSE -1
          sl == window.close - sign * window.atr
          tp2 == 2 * window.close + sign * 3 * window.atr
      IN /\ (buy # sell) =>
              IF sl > 0 /\ tp2 > 0
                THEN /\ d_signal.kind = "signal"
                     /\ d_signal.direction = (IF buy THEN "BUY" ELSE "SELL")
                     /\ d_signal.sl_price = sl
                     /\ 2 * d_signal.tp_price = tp2
                ELSE d_signal.kind = "none"
         /\ (~buy /\ ~sell) => d_signal.kind = "none"

\* A bullish momentum burst alone gave a BUY.
C14_Witness ==
    /\ pc = "returned"
    /\ BuySignals(window) = {"momentum"} /\ SellSignals(window) = {}
    /\ d_signal.kind = "signal" /\ d_signal.direction = "BUY"
    /\ d_signal.sl_price = window.close - window.atr

\* C15: every returned signal has confidence min(|RSI - 50| / 50, 1.0), in
\* hundredths min(2 |RSI - 50|, 100), between 0 and 1; a BUY triggered by
\* the lower band alone with RSI 45 has confidence 0.1.
C15_ConfidenceFromRsi ==
    d_signal.kind = "signal" =>
      LET dev == IF window.rsi >= 50 THEN window.rsi - 50 ELSE 50 - window.rsi
      IN /\ d_signal.confidence = (IF 2 * dev <= 100 THEN 2 * dev ELSE 100)
         /\ d_signal.confidence >= 0 /\ d_signal.confidence <= 100
         /\ (d_signal.reasons = {"bb"} /\ d_signal.direction = "BUY"
               /\ window.rsi = 45) => d_signal.confidence = 10

\* The scenario: 25 bars, BB period 20, close below the lower band only,
\* RSI 45.
C15_Witness ==
    /\ pc = "returned"
    /\ window.len = 25 /\ window.config.bb_period = 20
    /\ window.rsi = 45
    /\ d_signal.kind = "signal" /\ d_signal.direction = "BUY"
    /\ d_signal.reasons = {"bb"}
    /\ d_signal.confidence = 10

\* C16: after an exception in one binding's processing the binding has the
\* status "error" and the cycle goes on: to the next binding, the next
\* symbol or the closure reconciliation.
C16_BindingErrorIsolated ==
    (BindingDone /\ last.raised) =>
      /\ last.status = "error"
      /\ pc \in {"bindings", "fetch", "reconcile"}

\* C17: in a pass that got the broker's positions, a failure while one
\* closed ticket is processed keeps no other closed ticket in the Open
\* Trade Record or from its own processing: nothing that is still tracked
\* is absent from the broker's set, every removed ticket was processed,
\* and one whose own processing went well is persisted and notified.
C17_TicketFailureIsolated ==
    (pc = "summary" /\ rec.fetched) =>
      /\ open_trades \subseteq rec.open_tickets
      /\ rec.closed \cap open_trades = {}
      /\ DOMAIN rec.outcome = rec.closed
      /\ \A t \in rec.closed :
           rec.outcome[t] = "ok" => (t \in rec.persisted /\ t \in rec.notified)

\* Two tickets closed in one pass: storage failed for the first, the second
\* was removed, persisted and notified all the same.
C17_Witness ==
    /\ pc = "summary"
    /\ \E t, u \in rec.closed :
         /\ t < u
         /\ rec.outcome[t] = "db_raise"
         /\ rec.outcome[u] = "ok"
         /\ u \in rec.persisted /\ u \in rec.notified
         /\ u \notin open_trades

\* C18, for a cycle that passed the market-hours gate: the cycle comes to
\* its end (the sleep, or leaving the loop) only by way of the engine_cycle
\* summary.
C18_SummaryEveryCycle ==
    [][(pc \notin {"top", "sleep", "crashed"} /\ pc' \in {"sleep", "crashed"})
         => pc = "summary"]_vars

\* C19: when stop() was called since the loop last tested the running flag,
\* the next test of the flag ends the loop: no new cycle starts.
C19_StopObservedAtCycleTop ==
    [][(pc = "top" /\ pc' # "top" /\ stop_requested) => pc' = "exited"]_vars

\* C20: after a stop() call on an engine whose connector is set, the running
\* flag is false, stop() was invoked on every binding and
\* connector.disconnect() was called.
C20_ShutdownReleasesBroker ==
    (pc = "returned" /\ shutdown.connector) =>
      /\ ~is_running
      /\ shutdown.stopped = strategies
      /\ shutdown.disconnect # "none"

\* C21: no stop() call lets an exception through to its caller, whichever
\* shutdown step fails, and stop() is invoked on every binding even when
\* the stop() of an earlier one raised.
C21_StopNeverRaises ==
    pc = "returned" =>
      /\ ~shutdown.propagated
      /\ shutdown.stopped = strategies
      /\ shutdown.stop_errors \subseteq shutdown.stopped

\* The stop() of an early binding raised, a later binding was stopped all
\* the same, and connector.disconnect() raised as well.
C21_Witness ==
    /\ pc = "returned"
    /\ shutdown.disconnect = "raise"
    /\ \E k \in shutdown.stop_errors, u \in shutdown.stopped \ shutdown.stop_errors :
         KeyIndex(k) < KeyIndex(u)

\* C22: while start() has not got past the bridge the running flag is
\* false and no binding is registered; when the bridge set-up raises,
\* start() raises after stop() ran, with the flag false, no binding
\* registered and no cycle run (nothing fetched, evaluated or ordered).
C22_BridgeFailureAbortsStart ==
    /\ pc \in {"init", "starting"} => (~is_running /\ strategies = {})
    /\ start_error = "bridge" =>
         /\ pc = "failed"
         /\ stop_requested
         /\ ~is_running
         /\ strategies = {}
         /\ market = "none"
         /\ last = NoTrace /\ rec = NoRec
         /\ last_candle_time = [k \in CandleKeys |-> None]
         /\ next_ticket = 1 /\ open_trades = {}

C22_Witness == start_error = "bridge" /\ pc = "failed" /\ stop_requested

\* C23: a cycle whose gate finds the market closed or a weekend goes from
\* the gate to the sleep and from the sleep to the next cycle only: no
\* symbol is fetched, no binding processed, no reconciliation run, and the
\* gate leaves the candle cursors, the Open Trade Record and the broker's
\* ticket counter as they were.
C23_ClosedMarketOnlySleeps ==
    [][/\ (pc = "top" /\ market' \in {"closed", "weekend"}) =>
            /\ pc' = "sleep"
            /\ UNCHANGED <<last_candle_time, open_trades, broker_positions,
                           next_ticket, last, rec>>
       /\ market \in {"closed", "weekend"} =>
            /\ pc = "sleep"
            /\ pc' \in {"sleep", "top"}
            /\ last = NoTrace /\ rec = NoRec
            /\ UNCHANGED <<last_candle_time, open_trades, next_ticket>>]_vars

\* A closed-market cycle of an engine that has a cursor and a tracked trade.
C23_Witness ==
    /\ pc = "sleep"
    /\ market = "closed"
    /\ open_trades # {}
    /\ \E k \in CandleKeys : last_candle_time[k] # None

\* C24: pre_trade_check is called for a signal exactly when the signal came
\* out of the SL/TP enforcement and the positivity validation, with
\* sl_distance = |entry - enforced stop-loss|; open_position is called only
\* after that check approved, for the same binding and with the enforced
\* stop-loss the check was given.
C24_RiskCheckBeforeOrder ==
    pc = "returned" =>
      /\ (enforced.status = "signal") <=> (last.risk # "none")
      /\ last.risk = "none" => last.sl_distance = None
      /\ last.risk # "none" =>
           /\ enforced.sl > 0 /\ enforced.tp > 0
           /\ last.sl_distance >= 0
           /\ \/ last.sl_distance = signal.entry_price - enforced.sl
              \/ last.sl_distance = enforced.sl - signal.entry_price
      /\ last.order # "none" =>
           /\ last.risk = "approved"
           /\ last.order_sl = enforced.sl
           /\ last.key = <<Symbols[sym_idx], StrategyCodes[strat_idx]>>

\* A SELL whose stop-loss was derived from ATR above the entry: the check
\* got the positive distance and the order went out.
C24_Witness ==
    /\ pc = "returned"
    /\ signal.direction = "SELL" /\ signal.stop_loss = None
    /\ enforced.sl > signal.entry_price
    /\ last.sl_distance = enforced.sl - signal.entry_price
    /\ last.risk = "approved" /\ last.order = "ok"

\* C25: after the risk check rejected a signal, the TRADE_REJECTED event has
\* been published and the cycle is on its way to the summary that lists the
\* rejection.
C25_RejectionPublishedAndListed ==
    (BindingDone /\ last.risk = "rejected") =>
      /\ last.publish = "ok"
      /\ pc \in {"bindings", "fetch", "reconcile"}

\* C26: when open_position returned None nothing is recorded for the signal
\* (no ticket, no Open Trade Record entry, no trade row, no TRADE_OPENED, no
\* brain notification), the binding's handler does not run, and the cycle
\* goes on to a later binding, the next symbol or the reconciliation.
C26_NullOrderRecordsNothing ==
    (BindingDone /\ last.order = "null") =>
      /\ last.ticket = 0 /\ ~last.tracked /\ ~last.persisted
      /\ last.publish = "none" /\ last.brain = "none" /\ last.db = "none"
      /\ last.status = "signal" /\ ~last.raised
      /\ pc \in {"bindings", "fetch", "reconcile"}
      /\ pc = "bindings" =>
           KeyIndex(<<Symbols[sym_idx], StrategyCodes[strat_idx]>>)
             > KeyIndex(last.key)
      /\ pc = "fetch" => Symbols[sym_idx] # last.key[1]

\* open_position returned None for a binding that has a successor on the
\* same symbol.
C26_Witness ==
    /\ BindingDone
    /\ last.order = "null"
    /\ last.risk = "approved"
    /\ pc = "bindings"

\* C27: a candle fetch that raises leaves the flag of its timeframe false
\* and its cursor as it was, a fetch that returns is detected as usual, the
\* cycle goes on to the symbol's bindings, and a binding whose timeframe
\* has no true flag is not evaluated.
C27_FetchFailureSkipsTimeframe ==
    [][/\ pc = "fetch" =>
            /\ pc' \in {"fetch", "bindings"}
            /\ pc' = "bindings" =>
                 \A tf \in DOMAIN candles_tf' :
                   LET k == <<Symbols[sym_idx], tf>> IN
                   /\ candles_tf'[tf].kind = "raise" =>
                        /\ ~new_candle_for_tf'[tf]
                        /\ last_candle_time'[k] = last_candle_time[k]
                   /\ (candles_tf'[tf].kind = "ok" /\ candles_tf'[tf].len >= 2) =>
                        /\ new_candle_for_tf'[tf] =
                             (last_candle_time[k] = None
                                \/ candles_tf'[tf].latest > last_candle_time[k])
                        /\ last_candle_time'[k] = candles_tf'[tf].latest
            /\ \A k \in CandleKeys :
                 k[1] # Symbols[sym_idx] => last_candle_time'[k] = last_candle_time[k]
       /\ (pc = "bindings" /\ last' # last
             /\ ~NewCandleFlag(new_candle_for_tf, "M15")) =>
            /\ ~last'.evaluated
            /\ last'.status = "waiting_for_candle"
            /\ last'.risk = "none" /\ last'.order = "none"]_vars

\* The fetch of a symbol that has a cursor raised.
C27_Witness ==
    /\ pc = "bindings"
    /\ "M15" \in DOMAIN candles_tf
    /\ candles_tf["M15"].kind = "raise"
    /\ prev_time["M15"] # None
    /\ ~new_candle_for_tf["M15"]

\* C28: a reconciliation pass that finds the Open Trade Record empty
\* returns at its first statement: get_open_positions is not called and
\* no closure is processed, and the record, the broker's positions, the
\* cursors and the lifecycle state are as before.
C28_EmptyRecordReturnsAtOnce ==
    [][(pc = "reconcile" /\ open_trades = {}) =>
          /\ pc' = "summary"
          /\ rec' = NoRec
          /\ UNCHANGED <<open_trades, broker_positions, last_candle_time,
                         next_ticket, is_running, strategies, active>>]_vars

\* The pass returned at once although the broker holds positions.
C28_Witness ==
    /\ pc = "summary"
    /\ ~rec.ran /\ ~rec.fetched
    /\ open_trades = {}
    /\ broker_positions # {}

\* C29 as stated: the snapshot's drawdown is exactly
\* (balance - equity) / balance * 100 when balance > 0 and 0 otherwise.
C29_DrawdownAsClaimed ==
    (pc = "returned" /\ account.balance_ok /\ account.equity_ok) =>
      /\ account.balance > 0 =>
           account_summary.drawdown * account.balance
             = (account.balance - account.equity) * 10000
      /\ account.balance <= 0 => account_summary.drawdown = 0
      /\ (account.balance = 10000 /\ account.equity = 9500) =>
           account_summary.drawdown = 500

\* C29: when both figures were fetched, the snapshot's drawdown is
\* (balance - equity) / balance * 100 rounded to two decimals (within half
\* a hundredth of the exact value) when balance > 0 and 0 otherwise; for
\* balance 10000 and equity 9500 it is 5.0; when a fetch fails it is None.
C29_DrawdownRounded ==
    pc = "returned" =>
      IF account.balance_ok /\ account.equity_ok
        THEN /\ account.balance > 0 =>
                  LET err == account_summary.drawdown * account.balance
                               - (account.balance - account.equity) * 10000
                  IN /\ 2 * err <= account.balance
                     /\ 2 * err >= -account.balance
             /\ account.balance <= 0 => account_summary.drawdown = 0
             /\ (account.balance = 10000 /\ account.equity = 9500) =>
                  account_summary.drawdown = 500
             /\ (account.balance = 32 /\ account.equity = 31) =>
                  account_summary.drawdown = 312
        ELSE account_summary.drawdown = None

\* Balance 3, equity 2: the exact 33.333... is stored as 33.33.
C29_Witness ==
    /\ pc = "returned"
    /\ account.balance_ok /\ account.equity_ok
    /\ account.balance = 3 /\ account.equity = 2
    /\ account_summary.drawdown = 3333

\* C30: the profit reported to the brain is profit - commission - swap of
\* the history data, a missing figure counting as 0; the win flag is true
\* exactly when that net profit is above 0; without history data the
\* report is 0 and not won.
C30_NetProfitAndWinFlag ==
    pc = "returned" =>
      LET fig(x) == IF position_data.available /\ x # None THEN x ELSE 0
          net == fig(position_data.profit) - fig(position_data.commission)
                   - fig(position_data.swap)
      IN /\ close_report.profit = net
         /\ close_report.won <=> (net > 0)
         /\ ~position_data.available =>
              (close_report.profit = 0 /\ ~close_report.won)

\* A closure without history data.
C30_Witness ==
    /\ pc = "returned"
    /\ ~position_data.available
    /\ close_report.profit = 0
    /\ ~close_report.won

\* C31: generate_signal returns (None or a signal, never an exception);
\* it returns None for a window shorter than max(bb_period, rsi_period) + 5
\* candles and for one whose latest band, RSI or ATR value is undefined,
\* and a window of exactly that many candles is evaluated: with defined
\* values, triggers on one side only and positive stops it gives a signal.
C31_ShortOrUndefinedGivesNone ==
    pc = "returned" =>
      LET need == (IF window.config.bb_period >= window.config.rsi_period
                     THEN window.config.bb_period
                     ELSE window.config.rsi_period) + 5
      IN /\ d_signal.kind \in {"none", "signal"}
         /\ window.len < need => d_signal.kind = "none"
         /\ window.nan => d_signal.kind = "none"
         /\ (window.len = need /\ ~window.nan
               /\ BuySignals(window) # {} /\ SellSignals(window) = {}
               /\ window.close - window.atr > 0) => d_signal.kind = "signal"
         /\ d_signal.kind = "signal" => (window.len >= need /\ ~window.nan)

\* 24 bars for BB period 20, with a close below the lower band that a
\* longer window would have turned into a BUY.
C31_Witness ==
    /\ pc = "returned"
    /\ window.config.bb_period = 20 /\ window.len = 24
    /\ ~window.nan
    /\ BbBuy(window) /\ SellSignals(window) = {}
    /\ d_signal.kind = "none"

\* C32: the running flag is false while start() has not finished its
\* startup steps, a cycle is in progress only if the flag is true or
\* stop() was called after the cycle began, the flag is false once stop()
\* has run, and it is false when start() has returned or raised.
C32_LifecycleFollowsFlag ==
    /\ pc \in {"init", "starting"} => ~is_running
    /\ pc \in {"fetch", "bindings", "reconcile", "summary", "cycle_error"} =>
         (is_running \/ stop_requested)
    /\ stop_requested => ~is_running
    /\ pc \in {"exited", "failed"} => ~is_running

\* C33: the fetch step of a symbol performs one detection per timeframe
\* against the cursor the cycle found (a fetched series of two candles or
\* more gives the flag and becomes the cursor, anything else gives false
\* and leaves the cursor), no detection happens while the symbol's
\* bindings are processed, and every binding of the symbol reads the same
\* flag as the one before it.
C33_OneDetectionPerTimeframe ==
    [][/\ (pc = "fetch" /\ pc' = "bindings") =>
            \A tf \in DOMAIN candles_tf' :
              LET k == <<Symbols[sym_idx], tf>>
                  feed == candles_tf'[tf]
              IN IF feed.kind = "ok" /\ feed.len >= 2
                   THEN /\ new_candle_for_tf'[tf] =
                             (last_candle_time[k] = None
                                \/ feed.latest > last_candle_time[k])
                        /\ last_candle_time'[k] = feed.latest
                   ELSE /\ ~new_candle_for_tf'[tf]
                        /\ last_candle_time'[k] = last_candle_time[k]
       /\ pc = "bindings" => last_candle_time' = last_candle_time
       /\ (pc = "bindings" /\ pc' = "bindings") =>
            new_candle_for_tf' = new_candle_for_tf
       /\ (pc = "bindings" /\ last' # last) =>
            /\ last'.new_flag = NewCandleFlag(new_candle_for_tf, "M15")
            /\ BindingDone => last'.new_flag = last.new_flag]_vars

\* The first binding of a symbol was processed on a new candle and the
\* second, on the same timeframe, is about to read the flag.
C33_Witness ==
    /\ pc = "bindings"
    /\ strat_idx = 2
    /\ BindingDone /\ last.new_flag /\ last.evaluated
    /\ new_candle_for_tf["M15"]

\* C34: a get_insights(limit) call with limit >= 0 returns at most limit
\* insights: the min(limit, stored, 50) most recently stored ones, newest
\* first.
C34_AtMostLimitNewestFirst ==
    insights_result.limit # None =>
      LET held == IF insights_result.stored <= 50 THEN insights_result.stored
                  ELSE 50
          want == IF insights_result.limit <= held THEN insights_result.limit
                  ELSE held
      IN /\ Len(insights_result.items) <= insights_result.limit
         /\ Len(insights_result.items) = want
         /\ \A i \in 1..Len(insights_result.items) :
              insights_result.items[i] = insights_result.stored - i + 1

\* C39: the insights history never holds more than 50 entries, and they
\* are the most recently stored insights in the order they were stored;
\* after the 51st store the oldest insight is gone and no other.
C39_HistoryKeepsLastFifty ==
    LET n == Len(insights_history) IN
    /\ n <= 50
    /\ n = (IF insights_stored <= 50 THEN insights_stored ELSE 50)
    /\ \A i \in 1..n : insights_history[i] = insights_stored - n + i

\* 51 insights stored: the history runs from the 2nd to the 51st.
C39_Witness ==
    /\ insights_stored = 51
    /\ Len(insights_history) = 50
    /\ insights_history[1] = 2
    /\ insights_history[50] = 51

\* C35: any two LLM calls of analyze_market are at least 900 seconds
\* apart; a call made less than 900 seconds after the last call that went
\* on to the LLM returns None without calling the LLM or storing an
\* insight, a later one does call it, and insights are stored only by
\* calls that reached the LLM.
C35_OneAnalysisPerInterval ==
    /\ \A i, j \in DOMAIN llm_calls :
         i < j => llm_calls[j] - llm_calls[i] >= 900
    /\ insights_stored <= Len(llm_calls)
    /\ \A t \in AnalysisTasks :
         analysis[t].state # "idle" =>
           /\ analysis[t].since < 900 =>
                /\ analysis[t].state = "too_soon"
                /\ ~analysis[t].called /\ ~analysis[t].stored
           /\ analysis[t].since >= 900 => analysis[t].called
           /\ analysis[t].stored => analysis[t].called

\* Two tasks called at the same reading of the clock: one is in its LLM
\* call, the other was turned away.
C35_Witness ==
    \E t, u \in AnalysisTasks :
      /\ analysis[t].state = "calling"
      /\ analysis[u].state = "too_soon"
      /\ analysis[u].since = 0

\* C36: update_trading_symbols answers an empty list and a list with a
\* symbol outside SUPPORTED_SYMBOLS with 400 and leaves the stored setting
\* as it was; after a successful update the stored setting is the
\* submitted list, and a successful get_trading_symbols returns the stored
\* list, or TRADING_SYMBOLS when nothing is stored.
C36_SettingsValidatedAndStored ==
    LET r == settings_response IN
    /\ r.op = "update" =>
         /\ (r.body = << >> \/ \E i \in DOMAIN r.body : r.body[i] \notin supported_symbols)
              => r.status = 400 /\ redis_symbols = r.before
         /\ r.status = 200 => redis_symbols.set /\ redis_symbols.active_symbols = r.body
         /\ r.status = 400 =>
              r.body = << >> \/ \E i \in DOMAIN r.body : r.body[i] \notin supported_symbols
    /\ r.op = "get" /\ r.status = 200 =>
         /\ redis_symbols = r.before
         /\ redis_symbols.set => r.active_symbols = redis_symbols.active_symbols
         /\ ~redis_symbols.set => r.active_symbols = Symbols

\* A stored override survives an update that is refused for its second
\* symbol.
C36_Witness ==
    /\ settings_response.op = "update"
    /\ settings_response.status = 400
    /\ Len(settings_response.body) = 2
    /\ settings_response.body[1] \in supported_symbols
    /\ redis_symbols.set

\* C37: over any sequence of latest-candle timestamps, a binding is
\* evaluated at most once for each candle timestamp.
C37_EvaluatedOncePerTimestamp ==
    \A k \in AllKeys : \A T \in 1..MaxTime : eval_count[k][T] <= 1

\* C38: a reconciliation pass whose get_open_positions fails leaves the
\* Open Trade Record unchanged and processes no closure; the tracked
\* tickets are still there for the next pass and the cycle goes on to its
\* summary.
C38_FailedFetchLeavesRecord ==
    [][(pc = "reconcile" /\ rec'.ran /\ ~rec'.fetched) =>
         /\ open_trades' = open_trades
         /\ ~RecordEmpty(open_trades')
         /\ rec'.closed = {} /\ rec'.persisted = {} /\ rec'.notified = {}
         /\ broker_positions' = broker_positions
         /\ pc' = "summary"]_vars

\* A pass failed to fetch while a tracked ticket was closed at the broker.
C38_Witness ==
    /\ pc = "summary"
    /\ rec.ran /\ ~rec.fetched
    /\ open_trades \ broker_positions # {}

====
